---- MODULE Spec2Model ----
(***************************************************************************)
(* Verification model of the git-history-sidebar extension:                *)
(*   CacheManager (cacheManager.ts), GitService (gitService.ts),           *)
(*   GitHistoryProvider (historyProvider.ts), tree items (treeItems.ts).   *)
(*                                                                         *)
(* JavaScript strings are modelled as sequences of one-character strings,  *)
(* so that split / startsWith / endsWith / includes / localeCompare are    *)
(* computed on the characters and not assumed.  '' is the empty sequence.  *)
(***************************************************************************)
EXTENDS Integers, Sequences, FiniteSets, TLC

VARIABLES
  cache,              \* CacheManager.cache : key -> CacheEntry
  now,                \* Date.now(), a logical clock
  got,                \* result of the last CacheManager.get
  lastCall,           \* the operation performed by the last step, with its arguments
  blameEntries,       \* the blame entries git printed (what blameInput was printed from)
  blameInput,         \* raw `git blame --porcelain` text handed to parseBlameOutput
  blameInfo,          \* BlameLineInfo[] returned by parseBlameOutput
  enabled,            \* GitBlameProvider.enabled
  currentEditor,      \* GitBlameProvider.currentEditor: its document's file, or Undefined
  decorations,        \* the line numbers of the blame decorations each visible editor carries
  blameData,          \* GitBlameProvider.blameData : filePath -> BlameLineInfo[]
  isGitRepo,          \* GitService.isGitRepo
  submoduleRepos,     \* GitService.submoduleRepos: the submodule paths, in insertion order
  currentFilePath,    \* GitHistoryProvider.currentFilePath
  loadedCommits,      \* GitHistoryProvider.loadedCommits : filePath -> CommitData[]
  currentPage,        \* GitHistoryProvider.currentPage : filePath -> page
  commitFiles,        \* GitHistoryProvider.commitFiles : commitHash -> (folderPath -> items)
  focusedCommitHash,  \* GitHistoryProvider.focusedCommitHash
  allFoldersExpanded, \* GitHistoryProvider.allFoldersExpanded
  manualFoldState,    \* GitHistoryProvider.manualFoldState
  rootListing,        \* what getChildren() returned since the last refresh(), if called
  treeFiles,          \* the files argument of buildFileTree
  tree,               \* the Map buildFileTree returned
  pending,            \* the service calls that are awaiting their git query
  done,               \* the service calls that have returned, in order of return
  fetched,            \* the queries that succeeded since the last invalidation
  timeout,            \* GitWatcher: the time the pending timer is due, or NoTimer
  callbackCount,      \* GitWatcher: how often onChangeCallback was invoked
  eventTimes,         \* GitWatcher: the times of the change events so far
  disposed            \* GitWatcher: dispose() has been called

cacheVars == <<cache, now, got>>
decoVars == <<enabled, currentEditor, decorations, blameData>>
blameVars == <<blameEntries, blameInput, blameInfo, enabled, currentEditor, decorations,
               blameData>>
repoVars == <<isGitRepo, submoduleRepos>>
foldVars == <<allFoldersExpanded, manualFoldState>>
viewVars == <<currentFilePath, loadedCommits, currentPage, commitFiles, focusedCommitHash,
              allFoldersExpanded, manualFoldState, rootListing>>
treeVars == <<treeFiles, tree>>
svcVars == <<pending, done, fetched>>
watcherVars == <<timeout, callbackCount, eventTimes, disposed>>
vars == <<cache, now, got, lastCall, blameEntries, blameInput, blameInfo, enabled,
          currentEditor, decorations, blameData, isGitRepo,
          submoduleRepos, currentFilePath, loadedCommits, currentPage, commitFiles,
          focusedCommitHash, allFoldersExpanded, manualFoldState, rootListing, treeFiles, tree,
          pending, done, fetched, timeout, callbackCount, eventTimes, disposed>>

(***************************************************************************)
(* JavaScript values                                                       *)
(***************************************************************************)
\* undefined / null where a string is expected (no string has this shape)
Undefined == <<"<undefined>">>

\* JavaScript truthiness of an optional string: undefined and '' are falsy
Truthy(s) == s # Undefined /\ s # <<>>

\* String.prototype.startsWith / endsWith / includes / slice(n)
StartsWith(s, p) == Len(p) <= Len(s) /\ SubSeq(s, 1, Len(p)) = p
EndsWith(s, p) == Len(p) <= Len(s) /\ SubSeq(s, Len(s) - Len(p) + 1, Len(s)) = p
Includes(s, p) == \E i \in 0..(Len(s) - Len(p)) : SubSeq(s, i + 1, i + Len(p)) = p
Slice(s, n) == SubSeq(s, n + 1, Len(s))

\* index of the first character of s that is in seps, 0 when there is none
RECURSIVE FirstSep(_, _, _)
FirstSep(s, seps, i) ==
  IF i > Len(s) THEN 0
  ELSE IF s[i] \in seps THEN i
  ELSE FirstSep(s, seps, i + 1)

\* String.prototype.split on a one-character separator class: 'a/b'.split('/')
\* is ['a','b'], ''.split('/') is [''], 'a/'.split('/') is ['a','']
RECURSIVE Split(_, _)
Split(s, seps) ==
  LET i == FirstSep(s, seps, 1)
  IN IF i = 0 THEN <<s>>
     ELSE <<SubSeq(s, 1, i - 1)>> \o Split(Slice(s, i), seps)

\* decimal digits of a natural number, as `${n}` prints it
Digit(d) == <<"0", "1", "2", "3", "4", "5", "6", "7", "8", "9">>[d + 1]
RECURSIVE NumToStr(_)
NumToStr(n) == IF n < 10 THEN <<Digit(n)>> ELSE NumToStr(n \div 10) \o <<Digit(n % 10)>>

\* parseInt(s, 10) of a string that starts with a digit: the value of its
\* leading run of digits
DigitChars == {"0", "1", "2", "3", "4", "5", "6", "7", "8", "9"}
DigitValue(c) == CHOOSE d \in 0..9 : Digit(d) = c
RECURSIVE ParseIntFrom(_, _, _)
ParseIntFrom(s, i, acc) ==
  IF i > Len(s) \/ s[i] \notin DigitChars THEN acc
  ELSE ParseIntFrom(s, i + 1, acc * 10 + DigitValue(s[i]))
ParseInt(s) == ParseIntFrom(s, 1, 0)

\* a sort that leaves the array as it is
KeepOrder(seq, less) == seq

\* Array.prototype.sort(compare), which is stable: an element comes after the
\* elements that compare less and after the equal elements that preceded it
\* (less[i][j] is whether compare(seq[i], seq[j]) < 0)
StableSort(seq, less) ==
  LET n == Len(seq)
      pos(i) == 1 + Cardinality({j \in 1..n :
                      \/ less[j][i]
                      \/ (~less[i][j] /\ j < i)})
  IN [p \in 1..n |-> seq[CHOOSE i \in 1..n : pos(i) = p]]

(***************************************************************************)
(* CacheManager                                                            *)
(***************************************************************************)
\* CacheEntry<T>
CacheEntry(data, timestamp, filePath, commitHash) ==
  [data |-> data, timestamp |-> timestamp, filePath |-> filePath, commitHash |-> commitHash]

\* get<T>(key): entry.data, or undefined when there is no entry
CacheGetValue(c, key) ==
  IF key \notin DOMAIN c THEN Undefined ELSE c[key].data

\* set<T>(key, data, metadata): this.cache.set(key, {...})
CacheSetValue(c, key, data, filePath, commitHash, t) ==
  [k \in DOMAIN c \cup {key} |->
     IF k = key THEN CacheEntry(data, t, filePath, commitHash) ELSE c[k]]

\* invalidate(filePath?)
CacheInvalidateValue(c, filePath) ==
  IF Truthy(filePath)
    THEN [k \in {x \in DOMAIN c : c[x].filePath # filePath} |-> c[k]]
    ELSE << >>

(***************************************************************************)
(* Strings of the modelled workspace                                       *)
(***************************************************************************)
\* a 40-character commit hash made of one hexadecimal digit
Hash40(c) == [i \in 1..40 |-> c]
H1 == Hash40("a")
H2 == Hash40("b")
\* a commit that changed the files B and a of the workspace root
H3 == Hash40("e")

WorkspaceRoot == <<"/", "w">>
\* absolute paths of files of the workspace
FA == WorkspaceRoot \o <<"/", "d", "/", "a">>
FB == WorkspaceRoot \o <<"/", "b">>
FC == WorkspaceRoot \o <<"/", "d", "/", "e", "/", "c">>
\* a file with a history of more than two pages of commits
FL == WorkspaceRoot \o <<"/", "l">>

\* cache keys as GitService builds them
\* a key of the log that leaves the page out
KeyLogNoPage(filePath, page) == <<"l", "o", "g", ":">> \o filePath
KeyLog(filePath, page) == <<"l", "o", "g", ":">> \o filePath \o <<":">> \o NumToStr(page)
KeyFiles(commitHash) == <<"f", "i", "l", "e", "s", ":">> \o commitHash
KeyContent(commitHash, filePath) ==
  <<"c", "o", "n", "t", "e", "n", "t", ":">> \o commitHash \o <<":">> \o filePath
KeyBlame(filePath) == <<"b", "l", "a", "m", "e", ":">> \o filePath

(***************************************************************************)
(* GitService.parseBlameOutput                                             *)
(***************************************************************************)
HexChars == DigitChars \cup {"a", "b", "c", "d", "e", "f"}
HashLen == 40

\* number of digits of line starting at index i
RECURSIVE DigitRun(_, _)
DigitRun(line, i) ==
  IF i > Len(line) \/ line[i] \notin DigitChars THEN 0 ELSE 1 + DigitRun(line, i + 1)

\* line.match(/^[a-f0-9]{40} \d+ \d+/)
IsBlameHeader(line) ==
  /\ Len(line) > HashLen
  /\ \A i \in 1..HashLen : line[i] \in HexChars
  /\ line[HashLen + 1] = " "
  /\ LET r == DigitRun(line, HashLen + 2)
     IN /\ r >= 1
        /\ HashLen + 2 + r <= Len(line)
        /\ line[HashLen + 2 + r] = " "
        /\ DigitRun(line, HashLen + 3 + r) >= 1

AuthorPrefix == <<"a", "u", "t", "h", "o", "r", " ">>
AuthorTimePrefix == <<"a", "u", "t", "h", "o", "r", "-", "t", "i", "m", "e", " ">>
SummaryPrefix == <<"s", "u", "m", "m", "a", "r", "y", " ">>
UnknownAuthor == <<"U", "n", "k", "n", "o", "w", "n">>

\* new Date(ms).toISOString(), one string per instant
ToISOString(ms) == <<"@">> \o NumToStr(ms)

\* Partial<BlameLineInfo> as first stored in commitCache: { commitHash }
NewCommitInfo(hash) ==
  [commitHash |-> hash, author |-> Undefined, date |-> Undefined, summary |-> Undefined]

\* commitCache.get(hash) with one field assigned, when the entry exists
SetCommitField(commitCache, hash, field, value) ==
  IF Truthy(hash) /\ hash \in DOMAIN commitCache
    THEN [commitCache EXCEPT ![hash] = [@ EXCEPT ![field] = value]]
    ELSE commitCache

\* x || fallback
OrElse(x, fallback) == IF Truthy(x) THEN x ELSE fallback

\* the body of the `for (const line of lines)` loop; st holds blameInfo,
\* commitCache and currentCommitHash, t is the time of the call
BlameStep(st, line, t) ==
  IF IsBlameHeader(line) THEN
    LET parts == Split(line, {" "})
        hash == parts[1]
        lineNumber == ParseInt(parts[3])
        cc == IF hash \in DOMAIN st.commitCache
                THEN st.commitCache
                ELSE [k \in DOMAIN st.commitCache \cup {hash} |->
                        IF k = hash THEN NewCommitInfo(hash) ELSE st.commitCache[k]]
        commitInfo == cc[hash]
    IN [blameInfo |-> Append(st.blameInfo,
                        [lineNumber |-> lineNumber,
                         commitHash |-> hash,
                         author |-> OrElse(commitInfo.author, UnknownAuthor),
                         date |-> OrElse(commitInfo.date, ToISOString(t)),
                         summary |-> OrElse(commitInfo.summary, << >>)]),
        commitCache |-> cc,
        currentCommitHash |-> hash]
  ELSE IF StartsWith(line, AuthorPrefix) THEN
    [st EXCEPT !.commitCache =
       SetCommitField(@, st.currentCommitHash, "author", Slice(line, 7))]
  ELSE IF StartsWith(line, AuthorTimePrefix) THEN
    [st EXCEPT !.commitCache =
       SetCommitField(@, st.currentCommitHash, "date",
                      ToISOString(ParseInt(Slice(line, 12)) * 1000))]
  ELSE IF StartsWith(line, SummaryPrefix) THEN
    [st EXCEPT !.commitCache =
       SetCommitField(@, st.currentCommitHash, "summary", Slice(line, 8))]
  ELSE st

RECURSIVE BlameLoop(_, _, _, _)
BlameLoop(st, lines, i, t) ==
  IF i > Len(lines) THEN st ELSE BlameLoop(BlameStep(st, lines[i], t), lines, i + 1, t)

\* a comparator that leaves the records in input order
BlameLineNoOrder(a, b) == FALSE

\* (a, b) => a.lineNumber - b.lineNumber
BlameLineLess(a, b) == a.lineNumber < b.lineNumber

\* parseBlameOutput(output), called at time t
parseBlameOutput(output, t) ==
  LET lines == Split(output, {"\n"})
      st == BlameLoop([blameInfo |-> << >>, commitCache |-> << >>,
                       currentCommitHash |-> << >>], lines, 1, t)
      b == st.blameInfo
  IN StableSort(b, [i \in 1..Len(b) |-> [j \in 1..Len(b) |-> BlameLineLess(b[i], b[j])]])

(***************************************************************************)
(* Node's path module (POSIX) and String.prototype.localeCompare           *)
(***************************************************************************)
PathSep == "/"

RECURSIVE Join(_, _)
Join(parts, sep) ==
  IF parts = << >> THEN << >>
  ELSE IF Len(parts) = 1 THEN parts[1]
  ELSE parts[1] \o <<sep>> \o Join(Tail(parts), sep)

\* normalizeString: drops '' and '.' segments, resolves '..'
RECURSIVE NormSegs(_, _, _, _)
NormSegs(segs, i, acc, allowAboveRoot) ==
  IF i > Len(segs) THEN acc
  ELSE IF segs[i] = << >> \/ segs[i] = <<".">> THEN NormSegs(segs, i + 1, acc, allowAboveRoot)
  ELSE IF segs[i] = <<".", ".">> THEN
    IF acc # << >> /\ acc[Len(acc)] # <<".", ".">>
      THEN NormSegs(segs, i + 1, SubSeq(acc, 1, Len(acc) - 1), allowAboveRoot)
    ELSE IF allowAboveRoot THEN NormSegs(segs, i + 1, Append(acc, segs[i]), allowAboveRoot)
    ELSE NormSegs(segs, i + 1, acc, allowAboveRoot)
  ELSE NormSegs(segs, i + 1, Append(acc, segs[i]), allowAboveRoot)

\* path.normalize
PathNormalize(path) ==
  IF path = << >> THEN <<".">>
  ELSE LET isAbsolute == path[1] = PathSep
           trailing == path[Len(path)] = PathSep
           body == Join(NormSegs(Split(path, {PathSep}), 1, << >>, ~isAbsolute), PathSep)
           rel == IF body = << >> THEN (IF isAbsolute THEN << >> ELSE <<".">>)
                  ELSE IF trailing THEN body \o <<PathSep>> ELSE body
       IN IF isAbsolute THEN <<PathSep>> \o rel ELSE rel

\* path.join(a, b)
PathJoin(a, b) ==
  IF a = << >> /\ b = << >> THEN <<".">>
  ELSE IF a = << >> THEN PathNormalize(b)
  ELSE IF b = << >> THEN PathNormalize(a)
  ELSE PathNormalize(a \o <<PathSep>> \o b)

\* path.basename(p): the last segment, trailing separators ignored
RECURSIVE StripTrailingSep(_)
StripTrailingSep(path) ==
  IF path # << >> /\ path[Len(path)] = PathSep
    THEN StripTrailingSep(SubSeq(path, 1, Len(path) - 1)) ELSE path
PathBasename(path) ==
  LET segs == Split(StripTrailingSep(path), {PathSep}) IN segs[Len(segs)]

\* str.replace(/\\/g, '/')
BackslashToSlash(str) == [i \in 1..Len(str) |-> IF str[i] = "\\" THEN "/" ELSE str[i]]

\* the collation order of the characters of the model (CLDR root collation:
\* white space, then punctuation, then letters, B between b and c; git lists
\* paths in byte order, where B comes before a)
Collation == <<" ", "(", ")", "/", "a", "b", "B", "c", "d", "e", "f", "g", "n", "r", "t", "u",
               "w">>
CollationRank(c) == CHOOSE i \in 1..Len(Collation) : Collation[i] = c

\* a.localeCompare(b): negative, zero or positive
RECURSIVE LocaleCompareFrom(_, _, _)
LocaleCompareFrom(a, b, i) ==
  IF i > Len(a) /\ i > Len(b) THEN 0
  ELSE IF i > Len(a) THEN -1
  ELSE IF i > Len(b) THEN 1
  ELSE IF CollationRank(a[i]) < CollationRank(b[i]) THEN -1
  ELSE IF CollationRank(a[i]) > CollationRank(b[i]) THEN 1
  ELSE LocaleCompareFrom(a, b, i + 1)
LocaleCompare(a, b) == LocaleCompareFrom(a, b, 1)

(***************************************************************************)
(* GitService: repository resolution                                       *)
(***************************************************************************)
\* GitRepoInfo (the git handle is bound to root); null
RepoInfo(root) == [root |-> root]
NullRepo == RepoInfo(Undefined)

\* the for loop of getRepoForFile over submoduleRepos.entries()
RECURSIVE FirstSubmoduleRepo(_, _, _)
FirstSubmoduleRepo(normalizedFile, subs, i) ==
  IF i > Len(subs) THEN NullRepo
  ELSE LET fullSubmodulePath == PathJoin(WorkspaceRoot, subs[i])
       IN IF StartsWith(normalizedFile, PathNormalize(fullSubmodulePath))
            THEN RepoInfo(fullSubmodulePath)
            ELSE FirstSubmoduleRepo(normalizedFile, subs, i + 1)

\* getRepoForFile(filePath)
getRepoForFile(filePath) ==
  LET sub == FirstSubmoduleRepo(PathNormalize(filePath), submoduleRepos, 1)
  IN IF sub # NullRepo THEN sub
     ELSE IF isGitRepo THEN RepoInfo(WorkspaceRoot)
     ELSE NullRepo

\* getRelativePathForRepo(filePath, repoRoot)
getRelativePathForRepo(filePath, repoRoot) ==
  LET normalizedFile == PathNormalize(filePath)
      normalizedRepo == PathNormalize(repoRoot)
  IN IF StartsWith(normalizedFile, normalizedRepo)
       THEN LET relativePath == Slice(normalizedFile, Len(normalizedRepo))
            IN BackslashToSlash(IF StartsWith(relativePath, <<PathSep>>)
                                  THEN Slice(relativePath, 1) ELSE relativePath)
       ELSE BackslashToSlash(filePath)

(***************************************************************************)
(* Tree items (treeItems.ts)                                               *)
(***************************************************************************)
CurrentSuffix == <<" ", "(", "c", "u", "r", "r", "e", "n", "t", ")">>

\* new FolderItem(folderName, folderPath, collapsibleState)
FolderItem(folderName, folderPath, collapsibleState) ==
  [type |-> "folder", label |-> folderName, path |-> folderPath,
   collapsibleState |-> collapsibleState]

\* new FileItem(fileName, commitHash, filePath, isCurrentFile, status)
FileItem(fileName, commitHash, filePath, isCurrentFile, status) ==
  [type |-> "file",
   label |-> IF isCurrentFile THEN fileName \o CurrentSuffix ELSE fileName,
   path |-> filePath, commitHash |-> commitHash, isCurrentFile |-> isCurrentFile,
   status |-> status]

BackButtonItem == [type |-> "back"]

(***************************************************************************)
(* GitHistoryProvider.buildFileTree / expandFoldersToCurrentFile           *)
(***************************************************************************)
PathSeps == {"/", "\\"}

\* tree.get(parentPath) || [], push(item), tree.set(parentPath, ...)
AddChild(t, parentPath, item) ==
  [k \in DOMAIN t \cup {parentPath} |->
     IF k = parentPath
       THEN Append(IF k \in DOMAIN t THEN t[k] ELSE << >>, item)
       ELSE t[k]]

\* `${currentPath}/${folderName}`, or folderName when currentPath is ''
ChildPath(currentPath, folderName) ==
  IF Truthy(currentPath) THEN currentPath \o <<"/">> \o folderName ELSE folderName

\* mutant of AddFolders: no folderMap.has(currentPath) test, a FolderItem is
\* created for every file below the folder
RECURSIVE AddFoldersNoDedup(_, _, _, _)
AddFoldersNoDedup(st, parts, i, expanded) ==
  IF i > Len(parts) - 1 THEN st
  ELSE LET currentPath == ChildPath(st.currentPath, parts[i])
       IN AddFoldersNoDedup(
            [tree |-> AddChild(st.tree, st.currentPath,
                        FolderItem(parts[i], currentPath,
                                   IF expanded THEN "Expanded" ELSE "Collapsed")),
             folderMap |-> st.folderMap \cup {currentPath},
             currentPath |-> currentPath],
            parts, i + 1, expanded)

\* the inner loop "Build folder hierarchy": st holds tree, folderMap (its
\* keys) and currentPath
RECURSIVE AddFolders(_, _, _, _)
AddFolders(st, parts, i, expanded) ==
  IF i > Len(parts) - 1 THEN st
  ELSE LET folderName == parts[i]
           parentPath == st.currentPath
           currentPath == ChildPath(st.currentPath, folderName)
       IN IF currentPath \notin st.folderMap
            THEN AddFolders(
                   [tree |-> AddChild(st.tree, parentPath,
                               FolderItem(folderName, currentPath,
                                          IF expanded THEN "Expanded" ELSE "Collapsed")),
                    folderMap |-> st.folderMap \cup {currentPath},
                    currentPath |-> currentPath],
                   parts, i + 1, expanded)
            ELSE AddFolders([st EXCEPT !.currentPath = currentPath], parts, i + 1, expanded)

\* isCurrentFile of buildFileTree
IsCurrentFile(curFile, filePath) ==
  \/ curFile = filePath
  \/ (curFile # Undefined /\ EndsWith(curFile, filePath))
  \/ EndsWith(filePath, PathBasename(IF Truthy(curFile) THEN curFile ELSE << >>))

\* the body of `for (const fileInfo of files)`
AddFile(st, fileInfo, commitHash, curFile, expanded) ==
  LET parts == Split(fileInfo.path, PathSeps)
      withFolders == AddFolders([st EXCEPT !.currentPath = << >>], parts, 1, expanded)
      file == FileItem(parts[Len(parts)], commitHash, fileInfo.path,
                       IsCurrentFile(curFile, fileInfo.path), fileInfo.status)
  IN [withFolders EXCEPT !.tree = AddChild(@, withFolders.currentPath, file)]

RECURSIVE AddFiles(_, _, _, _, _, _)
AddFiles(st, files, i, commitHash, curFile, expanded) ==
  IF i > Len(files) THEN st
  ELSE AddFiles(AddFile(st, files[i], commitHash, curFile, expanded),
                files, i + 1, commitHash, curFile, expanded)

\* files.sort((a, b) => a.path.localeCompare(b.path))
SortFilesByPath(files) ==
  StableSort(files, [i \in 1..Len(files) |-> [j \in 1..Len(files) |->
                       LocaleCompare(files[i].path, files[j].path) < 0]])

\* mutant of ItemLess: labels compared without putting folders first
ItemLessByLabelOnly(a, b) == LocaleCompare(a.label, b.label) < 0

\* the comparator of the children sort: folders first, then by label
ItemLess(a, b) ==
  LET aIsFolder == a.type = "folder"
      bIsFolder == b.type = "folder"
  IN IF aIsFolder /\ ~bIsFolder THEN TRUE
     ELSE IF ~aIsFolder /\ bIsFolder THEN FALSE
     ELSE LocaleCompare(a.label, b.label) < 0

\* items.sort(...) of one child list
SortChildren(items) ==
  StableSort(items, [i \in 1..Len(items) |-> [j \in 1..Len(items) |->
                       ItemLess(items[i], items[j])]])

\* buildFileTree(files, commitHash), reading this.currentFilePath as curFile
\* and this.allFoldersExpanded as expanded
buildFileTree(files, commitHash, curFile, expanded) ==
  LET sorted == SortFilesByPath(files)
      st == AddFiles([tree |-> << >>, folderMap |-> {}, currentPath |-> << >>],
                     sorted, 1, commitHash, curFile, expanded)
  IN [k \in DOMAIN st.tree |-> SortChildren(st.tree[k])]

\* the relative path expandFoldersToCurrentFile computes for the current file
CurrentRelativePath(curFile) ==
  LET repo == getRepoForFile(curFile)
  IN IF repo # NullRepo THEN getRelativePathForRepo(curFile, repo.root) ELSE curFile

\* the folder paths 'a', 'a/b', ... of the first Len(parts) - 1 parts
RECURSIVE AncestorPaths(_, _, _)
AncestorPaths(parts, i, currentFolderPath) ==
  IF i > Len(parts) - 1 THEN {}
  ELSE LET p == ChildPath(currentFolderPath, parts[i])
       IN {p} \cup AncestorPaths(parts, i + 1, p)

\* a variant that expands the top-level folder of the chain only
expandTopFolderOnly(t, curFile) ==
  IF ~Truthy(curFile) THEN t
  ELSE
    LET relativePath == CurrentRelativePath(curFile)
        found == \E k \in DOMAIN t : \E i \in 1..Len(t[k]) :
                   t[k][i].type = "file" /\ t[k][i].path = relativePath
        parts == Split(relativePath, PathSeps)
    IN IF ~found \/ Len(parts) < 2 THEN t
       ELSE [k \in DOMAIN t |->
               [i \in 1..Len(t[k]) |->
                  IF t[k][i].type = "folder" /\ t[k][i].path = parts[1]
                    THEN FolderItem(parts[1], t[k][i].path, "Expanded")
                    ELSE t[k][i]]]

\* expandFoldersToCurrentFile(tree, commitHash): every FolderItem whose
\* folderPath is on the chain is replaced by an expanded FolderItem
expandFoldersToCurrentFile(t, curFile) ==
  IF ~Truthy(curFile) THEN t
  ELSE
    LET relativePath == CurrentRelativePath(curFile)
        found == \E k \in DOMAIN t : \E i \in 1..Len(t[k]) :
                   t[k][i].type = "file" /\ t[k][i].path = relativePath
        parts == Split(relativePath, PathSeps)
        chain == AncestorPaths(parts, 1, << >>)
        NameOf(folderPath) == LET ps == Split(folderPath, {"/"}) IN ps[Len(ps)]
    IN IF ~found THEN t
       ELSE [k \in DOMAIN t |->
               [i \in 1..Len(t[k]) |->
                  IF t[k][i].type = "folder" /\ t[k][i].path \in chain
                    THEN FolderItem(NameOf(t[k][i].path), t[k][i].path, "Expanded")
                    ELSE t[k][i]]]

(***************************************************************************)
(* The repository behind the git binary                                    *)
(***************************************************************************)
PageSize == 50

\* `git show --name-status --pretty=format: <commit>`
GitShowNameStatus(commitHash) ==
  IF commitHash = H3
    THEN <<"M", "\t", "B", "\n", "M", "\t", "a", "\n">>
  ELSE IF commitHash = H1
    THEN <<"M", "\t", "d", "/", "a", "\n",
           "A", "\t", "d", "/", "e", "/", "c", "\n",
           "D", "\t", "f", "/", "g", "\n">>
    ELSE <<"M", "\t", "b", "\n", "M", "\t", "d", "/", "a", "\n">>

\* the number of commits in the history of l
LongHistoryLen == 120

\* the hash of the n-th newest commit of l: 'ccc...c' ending in n written
\* with three digits
LongHash(n) ==
  [i \in 1..37 |-> "c"] \o <<Digit(n \div 100), Digit((n \div 10) % 10), Digit(n % 10)>>

\* the commits that changed a path, newest first, as `git log --follow` lists them
GitHistory(relativePath) ==
  IF relativePath = <<"l">> THEN [n \in 1..LongHistoryLen |-> LongHash(n)]
  ELSE IF relativePath = <<"d", "/", "a">> THEN <<H2, H1>>
  ELSE IF relativePath = <<"b">> THEN <<H2>>
  ELSE IF relativePath = <<"d", "/", "e", "/", "c">> THEN <<H1>>
  ELSE << >>

\* `git log --max-count=50 --skip=<skip>`: result.all mapped to CommitInfo
GitLog(relativePath, skip) ==
  LET all == GitHistory(relativePath)
      last == IF Len(all) < skip + PageSize THEN Len(all) ELSE skip + PageSize
  IN [i \in 1..(IF last > skip THEN last - skip ELSE 0) |->
        [hash |-> all[skip + i], date |-> <<"2", "0", "2", "6">>,
         message |-> <<"m">>, author |-> <<"A">>, authorEmail |-> <<"a", "@", "b">>]]

(***************************************************************************)
(* GitService.getChangedFiles / getLog                                     *)
(***************************************************************************)
WhiteSpace == {" ", "\t"}
StatusLetters == {"A", "M", "D", "R", "T"}

RECURSIVE CharRun(_, _, _)
CharRun(line, i, chars) ==
  IF i > Len(line) \/ line[i] \notin chars THEN 0 ELSE 1 + CharRun(line, i + 1, chars)

\* line.trim() is not empty
NotBlank(line) == \E i \in 1..Len(line) : line[i] \notin WhiteSpace

\* line.match(/^([AMDRT]\d*)\s+(.+)$/): <<status, path>>, or << >> for no match
MatchNameStatus(line) ==
  IF line = << >> \/ line[1] \notin StatusLetters THEN << >>
  ELSE LET d == CharRun(line, 2, DigitChars)
           w == CharRun(line, 2 + d, WhiteSpace)
           rest == Slice(line, 1 + d + w)
       IN IF w = 0 THEN << >>
          ELSE IF rest # << >> THEN <<SubSeq(line, 1, 1 + d), rest>>
          ELSE IF w >= 2 THEN <<SubSeq(line, 1, 1 + d), <<line[Len(line)]>> >>
          ELSE << >>

\* the if/else chain on status.startsWith
FileStatusOf(status) ==
  IF StartsWith(status, <<"A">>) THEN "added"
  ELSE IF StartsWith(status, <<"M">>) THEN "modified"
  ELSE IF StartsWith(status, <<"D">>) THEN "deleted"
  ELSE IF StartsWith(status, <<"R">>) THEN "modified"
  ELSE IF StartsWith(status, <<"T">>) THEN "modified"
  ELSE "unchanged"

\* the loop of getChangedFiles over the non-blank lines of the output
RECURSIVE ParseNameStatusLines(_, _)
ParseNameStatusLines(lines, i) ==
  IF i > Len(lines) THEN << >>
  ELSE LET m == IF NotBlank(lines[i]) THEN MatchNameStatus(lines[i]) ELSE << >>
       IN (IF m = << >> THEN << >>
           ELSE << [path |-> m[2], status |-> FileStatusOf(m[1])] >>)
          \o ParseNameStatusLines(lines, i + 1)
ParseNameStatus(result) == ParseNameStatusLines(Split(result, {"\n"}), 1)

\* this.cache.set(cacheKey, data, metadata); return data: the answer of a
\* query under the field name `field`, and the cache afterwards
CacheAnswer(c, cacheKey, field, data, filePath, commitHash, t) ==
  [x \in {field, "cache"} |->
     IF x = field THEN data
     ELSE CacheSetValue(c, cacheKey, data, filePath, commitHash, t)]

\* getChangedFiles(commitHash, filePath?) on cache c at time t; gitOk is
\* whether the git call succeeds.  The answer is the array returned and the
\* cache afterwards.  `if (cached)` holds for every array the cache stores,
\* the empty one included.
getChangedFiles(c, commitHash, filePath, gitOk, t) ==
  IF KeyFiles(commitHash) \in DOMAIN c
    THEN [files |-> CacheGetValue(c, KeyFiles(commitHash)), cache |-> c]
  ELSE IF Truthy(filePath) /\ getRepoForFile(filePath) = NullRepo
    THEN [files |-> << >>, cache |-> c]
  ELSE IF ~gitOk THEN [files |-> << >>, cache |-> c]
  ELSE CacheAnswer(c, KeyFiles(commitHash), "files",
                   ParseNameStatus(GitShowNameStatus(commitHash)), << >>, commitHash, t)

\* a variant that skips as many commits as the page number
SkipOfPageNumber(page) == page

\* '--skip': page * 50
SkipOfPage(page) == page * PageSize

\* getLog(filePath, page) on cache c at time t
getLog(c, filePath, page, gitOk, t) ==
  IF getRepoForFile(filePath) = NullRepo THEN [commits |-> << >>, cache |-> c]
  ELSE IF KeyLog(filePath, page) \in DOMAIN c
    THEN [commits |-> CacheGetValue(c, KeyLog(filePath, page)), cache |-> c]
  ELSE IF ~gitOk THEN [commits |-> << >>, cache |-> c]
  ELSE CacheAnswer(c, KeyLog(filePath, page), "commits",
                   GitLog(getRelativePathForRepo(filePath, getRepoForFile(filePath).root),
                          SkipOfPage(page)),
                   filePath, Undefined, t)

(***************************************************************************)
(* Specification SpecCache: the CacheManager driven by arbitrary calls     *)
(***************************************************************************)
MaxClock == 1

\* keys, payloads and tags the calls are drawn from
CacheKeys == {KeyLog(FA, 0), KeyBlame(FB), KeyFiles(H1)}
CachePayloads == {<< >>, <<"x">>}
CacheTags == {<< >>, FA, FB}

\* a GitBlameProvider as constructed with no active editor and the showBlame
\* setting at its default: nothing is decorated
DecoIdle ==
  /\ enabled = TRUE
  /\ currentEditor = Undefined
  /\ decorations = << >>
  /\ blameData = << >>

BlameIdle == blameEntries = << >> /\ blameInput = << >> /\ blameInfo = << >> /\ DecoIdle

\* a GitService on a workspace that is a repository without submodules
RepoIdle == isGitRepo = TRUE /\ submoduleRepos = << >>

\* a GitService with no call made yet
ServiceIdle == pending = {} /\ done = << >> /\ fetched = {}

\* a GitWatcher as constructed: no timer set, no event seen
NoTimer == -1
WatcherIdle ==
  timeout = NoTimer /\ callbackCount = 0 /\ eventTimes = << >> /\ disposed = FALSE

\* not rendered: refresh() was fired and getChildren() has not answered yet
NotRendered == [kind |-> "none"]

\* a GitHistoryProvider as constructed with no active editor
ViewIdle ==
  /\ currentFilePath = Undefined
  /\ loadedCommits = << >>
  /\ currentPage = << >>
  /\ commitFiles = << >>
  /\ focusedCommitHash = Undefined
  /\ allFoldersExpanded = FALSE
  /\ manualFoldState = "auto"
  /\ rootListing = NotRendered

TreeIdle == treeFiles = << >> /\ tree = << >>

CacheIdle == cache = << >> /\ got = Undefined

InitCache ==
  /\ CacheIdle
  /\ now = 0
  /\ lastCall = [op |-> "new"]
  /\ BlameIdle
  /\ RepoIdle
  /\ ServiceIdle
  /\ WatcherIdle
  /\ ViewIdle
  /\ TreeIdle

CacheSet(key, data, filePath, commitHash) ==
  /\ cache' = CacheSetValue(cache, key, data, filePath, commitHash, now)
  /\ lastCall' = [op |-> "set", key |-> key, data |-> data, filePath |-> filePath]
  /\ UNCHANGED <<now, got, blameVars, repoVars, svcVars, watcherVars, viewVars, treeVars>>

CacheGet(key) ==
  /\ got' = CacheGetValue(cache, key)
  /\ lastCall' = [op |-> "get", key |-> key]
  /\ UNCHANGED <<cache, now, blameVars, repoVars, svcVars, watcherVars, viewVars, treeVars>>

CacheInvalidate(filePath) ==
  /\ cache' = CacheInvalidateValue(cache, filePath)
  /\ lastCall' = [op |-> "invalidate", filePath |-> filePath]
  /\ UNCHANGED <<now, got, blameVars, repoVars, svcVars, watcherVars, viewVars, treeVars>>

\* time passes
Tick ==
  /\ now < MaxClock
  /\ now' = now + 1
  /\ lastCall' = [op |-> "tick"]
  /\ UNCHANGED <<cache, got, blameVars, repoVars, svcVars, watcherVars, viewVars, treeVars>>

NextCache ==
  \/ \E k \in CacheKeys, d \in CachePayloads, fp \in CacheTags :
       CacheSet(k, d, fp, IF fp = << >> THEN H1 ELSE Undefined)
  \/ \E k \in CacheKeys : CacheGet(k)
  \/ \E fp \in CacheTags \cup {Undefined} : CacheInvalidate(fp)
  \/ Tick

SpecCache == InitCache /\ [][NextCache]_vars

\* C2: invalidate(filePath), for any file path value, removes exactly the
\* entries tagged with that path: every key tagged with it misses afterwards
\* and every entry with another tag (another file, or '' for a commit-scoped
\* entry) is still there, unchanged.
C2_InvalidateRemovesExactlyTagged ==
  [][(lastCall'.op = "invalidate" /\ lastCall'.filePath # Undefined) =>
       \A k \in DOMAIN cache :
         IF cache[k].filePath = lastCall'.filePath
           THEN CacheGetValue(cache', k) = Undefined
           ELSE k \in DOMAIN cache' /\ cache'[k] = cache[k]]_vars

(***************************************************************************)
(* Specification SpecBlame: parseBlameOutput applied to porcelain texts    *)
(***************************************************************************)
MaxBlameEntries == 3

\* what git knows of the commits of the blamed file
CommitMeta(h) ==
  IF h = H1 THEN [author |-> <<"A">>, time |-> 1, summary |-> <<"f">>]
  ELSE [author |-> <<"B">>, time |-> 2, summary |-> <<"g">>]

\* one entry of the porcelain stream: the header line, the commit's metadata
\* lines when git prints them (meta = "full"), and the tab-prefixed content
BlameEntry == [hash : {H1, H2}, meta : {"full", "bare"}, lineNumber : 1..MaxBlameEntries]

BlameEntryLines(e) ==
  <<e.hash \o <<" ">> \o NumToStr(e.lineNumber) \o <<" ">> \o NumToStr(e.lineNumber)>>
  \o (IF e.meta = "full"
        THEN <<AuthorPrefix \o CommitMeta(e.hash).author,
               AuthorTimePrefix \o NumToStr(CommitMeta(e.hash).time),
               SummaryPrefix \o CommitMeta(e.hash).summary>>
        ELSE << >>)
  \o << <<"\t", "x">> >>

RECURSIVE BlameText(_)
BlameText(es) ==
  IF es = << >> THEN << >>
  ELSE LET ls == BlameEntryLines(Head(es))
           text == ls[1] \o <<"\n">>
                   \o (IF Len(ls) > 2
                         THEN ls[2] \o <<"\n">> \o ls[3] \o <<"\n">> \o ls[4] \o <<"\n">>
                         ELSE << >>)
                   \o ls[Len(ls)] \o <<"\n">>
       IN text \o BlameText(Tail(es))

\* streams of 1..MaxBlameEntries entries covering the lines 1..n in any order
BlameEntrySeqs ==
  UNION {{es \in [1..n -> BlameEntry] : {es[i].lineNumber : i \in 1..n} = 1..n} :
           n \in 1..MaxBlameEntries}

InitBlame ==
  /\ CacheIdle
  /\ now \in 0..MaxClock
  /\ lastCall = [op |-> "new"]
  /\ blameEntries \in BlameEntrySeqs
  /\ blameInput = BlameText(blameEntries)
  /\ blameInfo = << >>
  /\ DecoIdle
  /\ RepoIdle
  /\ ServiceIdle
  /\ WatcherIdle
  /\ ViewIdle
  /\ TreeIdle

\* a behaviour is one call of the parser on the text drawn by Init
ParseBlame ==
  /\ lastCall.op = "new"
  /\ blameInfo' = parseBlameOutput(blameInput, now)
  /\ lastCall' = [op |-> "parseBlameOutput"]
  /\ UNCHANGED <<cacheVars, blameEntries, blameInput, decoVars, repoVars, svcVars, watcherVars,
                 viewVars, treeVars>>

\* a line that is not a header line: the header with a character put before
\* the hash
MalformedHeader(header) == <<"?">> \o header

\* the porcelain text of the stream with the header line of entry k replaced
\* by a malformed line
RECURSIVE CorruptedText(_, _)
CorruptedText(es, k) ==
  IF es = << >> THEN << >>
  ELSE IF k = 1
    THEN MalformedHeader(BlameText(<<Head(es)>>)) \o BlameText(Tail(es))
    ELSE BlameText(<<Head(es)>>) \o CorruptedText(Tail(es), k - 1)

\* parseBlameOutput on the text whose k-th header line is malformed
ParseCorruptedBlame(k) ==
  /\ lastCall.op = "new"
  /\ blameInfo' = parseBlameOutput(CorruptedText(blameEntries, k), now)
  /\ lastCall' = [op |-> "parseCorruptedBlame", replaced |-> k]
  /\ UNCHANGED <<cacheVars, blameEntries, blameInput, decoVars, repoVars, svcVars, watcherVars,
                 viewVars, treeVars>>

NextBlame ==
  \/ ParseBlame
  \/ \E k \in 1..Len(blameEntries) : ParseCorruptedBlame(k)

SpecBlame == InitBlame /\ [][NextBlame]_vars

\* commit h prints its metadata after its first header line and has a later,
\* bare header line
FullThenBare(es, h) ==
  \E i \in 1..Len(es) :
    /\ es[i].hash = h /\ es[i].meta = "full"
    /\ \A j \in 1..(i - 1) : es[j].hash # h
    /\ \E k \in (i + 1)..Len(es) : es[k].hash = h /\ es[k].meta = "bare"

\* record r carries the metadata of its commit
HasCommitMeta(r) ==
  /\ r.author = CommitMeta(r.commitHash).author
  /\ r.date = ToISOString(CommitMeta(r.commitHash).time * 1000)
  /\ r.summary = CommitMeta(r.commitHash).summary

\* C1: when commit C prints its metadata after its first header line and a
\* later header line of C is bare, every record parseBlameOutput emits for C,
\* the one of the first header line included, carries C's author, date and
\* summary (never the placeholder 'Unknown').
C1_BlameMetadataReuse ==
  lastCall.op = "parseBlameOutput" =>
    \A h \in {H1, H2} :
      FullThenBare(blameEntries, h) =>
        \A i \in 1..Len(blameInfo) :
          blameInfo[i].commitHash = h => HasCommitMeta(blameInfo[i])

(***************************************************************************)
(* Specification SpecTree: buildFileTree and expandFoldersToCurrentFile    *)
(* applied to lists of changed files, as getFilesForCommit applies them    *)
(***************************************************************************)
MaxTreeFiles == 3

\* repository-relative paths a commit may have changed
TreePaths ==
  {<<"b">>, <<"d">>, <<"d", "/", "a">>, <<"d", "/", "b">>,
   <<"d", "/", "e", "/", "c">>, <<"f", "/", "a">>}

\* the status git reports for a path
StatusOf(path) ==
  IF Len(path) = 1 THEN "deleted" ELSE IF Len(path) = 3 THEN "modified" ELSE "added"

\* lists of up to MaxTreeFiles distinct changed files, in any order
TreeInputs ==
  UNION {{[i \in 1..n |-> [path |-> ps[i], status |-> StatusOf(ps[i])]] :
            ps \in {q \in [1..n -> TreePaths] :
                     \A i, j \in 1..n : i # j => q[i] # q[j]}} :
           n \in 0..MaxTreeFiles}

\* the values of (manualFoldState, allFoldersExpanded) the provider takes
FoldStates == {<<"auto", FALSE>>, <<"folded", FALSE>>, <<"unfolded", TRUE>>}

InitTree ==
  /\ CacheIdle
  /\ now = 0
  /\ lastCall = [op |-> "new"]
  /\ BlameIdle
  /\ RepoIdle
  /\ ServiceIdle
  /\ WatcherIdle
  /\ currentFilePath \in {Undefined, FA, FB, FC}
  /\ loadedCommits = << >>
  /\ currentPage = << >>
  /\ commitFiles = << >>
  /\ focusedCommitHash = H1
  /\ \E fs \in FoldStates : manualFoldState = fs[1] /\ allFoldersExpanded = fs[2]
  /\ rootListing = NotRendered
  /\ treeFiles \in TreeInputs
  /\ tree = << >>

BuildTree ==
  /\ lastCall.op = "new"
  /\ tree' = buildFileTree(treeFiles, focusedCommitHash, currentFilePath, allFoldersExpanded)
  /\ lastCall' = [op |-> "buildFileTree"]
  /\ UNCHANGED <<cacheVars, blameVars, repoVars, svcVars, watcherVars, viewVars, treeFiles>>

\* the auto branch of getFilesForCommit
ExpandTree ==
  /\ lastCall.op = "buildFileTree"
  /\ manualFoldState = "auto"
  /\ tree' = expandFoldersToCurrentFile(tree, currentFilePath)
  /\ lastCall' = [op |-> "expandFoldersToCurrentFile"]
  /\ UNCHANGED <<cacheVars, blameVars, repoVars, svcVars, watcherVars, viewVars, treeFiles>>

NextTree == BuildTree \/ ExpandTree

SpecTree == InitTree /\ [][NextTree]_vars

\* the tree has been returned by buildFileTree, expanded or not
TreeBuilt == lastCall.op \in {"buildFileTree", "expandFoldersToCurrentFile"}

\* the places <<folderPath, index>> of the items of a tree, by type
NodesOf(t, type) ==
  {pos \in UNION {{<<k, i>> : i \in 1..Len(t[k])} : k \in DOMAIN t} :
     t[pos[1]][pos[2]].type = type}
NodeAt(t, pos) == t[pos[1]][pos[2]]

\* the proper prefixes 'a', 'a/b' of the path 'a/b/c', and the parent prefix
\* of a folder path ('' at top level)
ProperPrefixes(path) ==
  LET parts == Split(path, {"/"})
  IN {Join(SubSeq(parts, 1, n), "/") : n \in 1..(Len(parts) - 1)}
ParentPrefix(path) ==
  LET parts == Split(path, {"/"}) IN Join(SubSeq(parts, 1, Len(parts) - 1), "/")

TreePrefixInvariant(t) ==
  /\ \A f \in NodesOf(t, "file") : \A q \in ProperPrefixes(NodeAt(t, f).path) :
       LET at == {d \in NodesOf(t, "folder") : NodeAt(t, d).path = q}
       IN Cardinality(at) = 1 /\ \A d \in at : d[1] = ParentPrefix(q)
  /\ \A d \in NodesOf(t, "folder") : \E f \in NodesOf(t, "file") :
       NodeAt(t, d).path \in ProperPrefixes(NodeAt(t, f).path)

\* C8: in the map returned by buildFileTree, and after
\* expandFoldersToCurrentFile, every proper path prefix of every File node has
\* exactly one Folder node, listed once in the child list of its parent prefix
\* ('' at top level), and there is no Folder that is not such a prefix.
C8_TreePrefixInvariant == TreeBuilt => TreePrefixInvariant(tree)

\* C8 witness: an expanded tree with a file two folders deep
C8_Witness ==
  /\ lastCall.op = "expandFoldersToCurrentFile"
  /\ currentFilePath = FC
  /\ \E f \in NodesOf(tree, "file") : Cardinality(ProperPrefixes(NodeAt(tree, f).path)) = 2
  /\ \E d \in NodesOf(tree, "folder") : NodeAt(tree, d).collapsibleState = "Expanded"
  /\ Cardinality(NodesOf(tree, "folder")) = 3

FoldersFirstSorted(items) ==
  \A i, j \in 1..Len(items) : i < j =>
    /\ ~(items[i].type = "file" /\ items[j].type = "folder")
    /\ items[i].type = items[j].type => LocaleCompare(items[i].label, items[j].label) <= 0

\* C9: in every child list of the tree returned for a commit all Folder
\* entries precede all File entries and each group is in alphabetical order of
\* the display name (the label), also after the auto-expand step and when a
\* file is marked as the current file.
C9_FolderOrdering == TreeBuilt => \A k \in DOMAIN tree : FoldersFirstSorted(tree[k])

\* C9 witness: after the auto-expand step, a child list with an expanded
\* folder before a file, and a child list with a file marked current and
\* another file
C9_Witness ==
  /\ lastCall.op = "expandFoldersToCurrentFile"
  /\ \E k \in DOMAIN tree : \E i, j \in 1..Len(tree[k]) :
       /\ tree[k][i].type = "folder" /\ tree[k][i].collapsibleState = "Expanded"
       /\ tree[k][j].type = "file"
  /\ \E k \in DOMAIN tree : \E i, j \in 1..Len(tree[k]) :
       /\ tree[k][i].type = "file" /\ tree[k][i].isCurrentFile
       /\ tree[k][j].type = "file" /\ ~tree[k][j].isCurrentFile

\* the repo-relative path of the tracked file is among the files of the tree
TargetInTree(t, curFile) ==
  /\ Truthy(curFile)
  /\ \E f \in NodesOf(t, "file") : NodeAt(t, f).path = CurrentRelativePath(curFile)

\* the folders on the ancestor chain of the tracked file are expanded and
\* every other folder is collapsed
AutoExpandedTo(t, curFile) ==
  \A d \in NodesOf(t, "folder") :
    NodeAt(t, d).collapsibleState =
      IF NodeAt(t, d).path \in ProperPrefixes(CurrentRelativePath(curFile))
        THEN "Expanded" ELSE "Collapsed"

\* C10: a tree built under the auto policy (buildFileTree followed by
\* expandFoldersToCurrentFile) for a commit whose changed files include the
\* repo-relative path of the tracked file has every folder on that file's
\* ancestor chain expanded and every other folder collapsed.
C10_AutoExpandTo ==
  (lastCall.op = "expandFoldersToCurrentFile" /\ TargetInTree(tree, currentFilePath))
    => AutoExpandedTo(tree, currentFilePath)

\* C10 witness: the tracked file two folders deep, both ancestors expanded and
\* a folder off the chain collapsed
C10_Witness ==
  /\ lastCall.op = "expandFoldersToCurrentFile"
  /\ currentFilePath = FC
  /\ TargetInTree(tree, currentFilePath)
  /\ Cardinality({d \in NodesOf(tree, "folder") :
                    NodeAt(tree, d).collapsibleState = "Expanded"}) = 2
  /\ \E d \in NodesOf(tree, "folder") : NodeAt(tree, d).collapsibleState = "Collapsed"

(***************************************************************************)
(* Specification SpecView: the GitHistoryProvider driven by editor         *)
(* changes, commands and renders of the tree view                          *)
(***************************************************************************)
\* a file of the workspace whose path contains 'git-history'
FG == WorkspaceRoot \o <<"/", "g", "i", "t", "-", "h", "i", "s", "t", "o", "r", "y", "/", "x">>
GitHistoryScheme == <<"g", "i", "t", "-", "h", "i", "s", "t", "o", "r", "y">>

\* the documents an active editor can show: editor.document.uri.scheme and
\* editor.document.fileName
Editors ==
  {[scheme |-> "file", fileName |-> f] : f \in {FA, FB, FG}}
  \cup {[scheme |-> "git-history", fileName |-> <<"/", "d", "/", "a">>],
        [scheme |-> "diff", fileName |-> FA]}

Commits == {H1, H2}

\* the git binary answers every query of the view
GitOutcomes == {TRUE}

EmptyStateItem(message) == [type |-> "empty", label |-> message]
CommitItem(commit, filePath) == [type |-> "commit", commit |-> commit, filePath |-> filePath]
LoadMoreItem(filePath, page) == [type |-> "loadMore", filePath |-> filePath, page |-> page]

Rendered(items) == [kind |-> "rendered", items |-> items]

\* Map.get(key) || dflt
MapGet(m, key, dflt) == IF key \in DOMAIN m THEN m[key] ELSE dflt
MapSet(m, key, value) == [k \in DOMAIN m \cup {key} |-> IF k = key THEN value ELSE m[k]]
MapDelete(m, key) == [k \in DOMAIN m \ {key} |-> m[k]]

InitView ==
  /\ CacheIdle
  /\ now = 0
  /\ lastCall = [op |-> "new"]
  /\ BlameIdle
  /\ RepoIdle
  /\ ServiceIdle
  /\ WatcherIdle
  /\ ViewIdle
  /\ TreeIdle

\* a variant that returns early for no editor
IgnoresNoEditor(editor) == FALSE

\* the two early returns of handleEditorChange
IgnoredEditor(editor) ==
  \/ editor.scheme = "git-history"
  \/ Includes(editor.fileName, GitHistoryScheme)
  \/ editor.scheme = "diff"

\* onDidChangeActiveTextEditor -> handleEditorChange -> setCurrentFile
HandleEditorChange(editor) ==
  LET filePath == editor.fileName
      ignored == IgnoredEditor(editor)
      changed == filePath # currentFilePath
  IN /\ lastCall' = [op |-> "handleEditorChange", editor |-> editor]
     /\ IF ignored
          THEN UNCHANGED viewVars
          ELSE /\ focusedCommitHash' =
                    IF Truthy(focusedCommitHash) /\ changed THEN Undefined
                    ELSE focusedCommitHash
               /\ IF changed
                    THEN /\ currentFilePath' = filePath
                         /\ loadedCommits' = MapDelete(loadedCommits, filePath)
                         /\ currentPage' = MapSet(currentPage, filePath, 0)
                         /\ commitFiles' = << >>
                         /\ rootListing' = NotRendered
                    ELSE UNCHANGED <<currentFilePath, loadedCommits, currentPage,
                                     commitFiles, rootListing>>
               /\ UNCHANGED <<allFoldersExpanded, manualFoldState>>
     /\ UNCHANGED <<cacheVars, blameVars, repoVars, svcVars, watcherVars, treeVars>>

SetFocusedCommit(commitHash) ==
  /\ focusedCommitHash' = commitHash
  /\ rootListing' = NotRendered
  /\ lastCall' = [op |-> "setFocusedCommit", commitHash |-> commitHash]
  /\ UNCHANGED <<currentFilePath, loadedCommits, currentPage, commitFiles,
                 allFoldersExpanded, manualFoldState>>
  /\ UNCHANGED <<cacheVars, blameVars, repoVars, svcVars, watcherVars, treeVars>>

\* a variant of back that resets the fold policy and leaves the focus
ClearFocusedCommitKeepsFocus ==
  /\ allFoldersExpanded' = FALSE
  /\ manualFoldState' = "auto"
  /\ rootListing' = NotRendered
  /\ lastCall' = [op |-> "clearFocusedCommit"]
  /\ UNCHANGED <<currentFilePath, loadedCommits, currentPage, commitFiles,
                 focusedCommitHash>>
  /\ UNCHANGED <<cacheVars, blameVars, repoVars, svcVars, watcherVars, treeVars>>

ClearFocusedCommit ==
  /\ focusedCommitHash' = Undefined
  /\ allFoldersExpanded' = FALSE
  /\ manualFoldState' = "auto"
  /\ rootListing' = NotRendered
  /\ lastCall' = [op |-> "clearFocusedCommit"]
  /\ UNCHANGED <<currentFilePath, loadedCommits, currentPage, commitFiles>>
  /\ UNCHANGED <<cacheVars, blameVars, repoVars, svcVars, watcherVars, treeVars>>

\* a variant that clears the whole map
NoTreesAfterFold == << >>

\* commitFiles after `if (this.focusedCommitHash)
\* this.commitFiles.delete(this.focusedCommitHash)`
TreesAfterFold ==
  IF Truthy(focusedCommitHash) THEN MapDelete(commitFiles, focusedCommitHash) ELSE commitFiles

FoldAll ==
  /\ manualFoldState' = "folded"
  /\ allFoldersExpanded' = FALSE
  /\ commitFiles' = TreesAfterFold
  /\ rootListing' = NotRendered
  /\ lastCall' = [op |-> "foldAll"]
  /\ UNCHANGED <<currentFilePath, loadedCommits, currentPage, focusedCommitHash>>
  /\ UNCHANGED <<cacheVars, blameVars, repoVars, svcVars, watcherVars, treeVars>>

UnfoldAll ==
  /\ manualFoldState' = "unfolded"
  /\ allFoldersExpanded' = TRUE
  /\ commitFiles' = TreesAfterFold
  /\ rootListing' = NotRendered
  /\ lastCall' = [op |-> "unfoldAll"]
  /\ UNCHANGED <<currentFilePath, loadedCommits, currentPage, focusedCommitHash>>
  /\ UNCHANGED <<cacheVars, blameVars, repoVars, svcVars, watcherVars, treeVars>>

\* the gitHistory.refresh command and the GitWatcher callback
Refresh ==
  /\ cache' = CacheInvalidateValue(cache, Undefined)
  /\ rootListing' = NotRendered
  /\ lastCall' = [op |-> "refresh"]
  /\ UNCHANGED <<currentFilePath, loadedCommits, currentPage, commitFiles,
                 focusedCommitHash, allFoldersExpanded, manualFoldState>>
  /\ UNCHANGED <<now, got, blameVars, repoVars, svcVars, watcherVars, treeVars>>

\* the tail of getFilesForCommit: the tree is stored in commitFiles and its
\* top level returned.  buildFileTree has sorted the array it was given in
\* place, and that array is the one the service cache holds.
StoreTree(commitHash, r, t) ==
  [items |-> MapGet(t, << >>, << >>),
   commitFiles |-> MapSet(commitFiles, commitHash, t),
   cache |-> IF KeyFiles(commitHash) \in DOMAIN r.cache
               THEN [r.cache EXCEPT ![KeyFiles(commitHash)].data = SortFilesByPath(r.files)]
               ELSE r.cache]

\* a variant that expands the path to the current file in every fold state
ExpandInEveryFoldState(built) == expandFoldersToCurrentFile(built, currentFilePath)

\* the branch of getFilesForCommit on manualFoldState after buildFileTree
ApplyFoldState(built) ==
  IF manualFoldState = "auto"
    THEN expandFoldersToCurrentFile(built, currentFilePath)
    ELSE built

\* the rebuilding path of getFilesForCommit, r being the answer of getChangedFiles
RebuildTree(commitHash, r) ==
  StoreTree(commitHash, r,
            ApplyFoldState(buildFileTree(r.files, commitHash, currentFilePath,
                                         allFoldersExpanded)))

\* getFilesForCommit(commitHash): the items returned, and commitFiles and the
\* service cache afterwards
getFilesForCommit(commitHash, gitOk) ==
  IF commitHash \in DOMAIN commitFiles /\ manualFoldState = "auto"
    THEN [items |-> MapGet(commitFiles[commitHash], << >>, << >>),
          commitFiles |-> commitFiles, cache |-> cache]
    ELSE RebuildTree(commitHash,
                     getChangedFiles(cache, commitHash, currentFilePath, gitOk, now))

\* the items getCommitsForFile makes of the commits loaded for the file
CommitListing(filePath, commits, page) ==
  IF Len(commits) = 0
    THEN <<EmptyStateItem("No history found for this file")>>
  ELSE IF Len(commits) = PageSize * (page + 1)
    THEN Append([i \in 1..Len(commits) |-> CommitItem(commits[i], filePath)],
                LoadMoreItem(filePath, page + 1))
  ELSE [i \in 1..Len(commits) |-> CommitItem(commits[i], filePath)]

\* the first load of getCommitsForFile, r being the answer of getLog
LoadFirstPage(filePath, r) ==
  [items |-> CommitListing(filePath, r.commits, MapGet(currentPage, filePath, 0)),
   loadedCommits |-> MapSet(loadedCommits, filePath, r.commits),
   currentPage |-> MapSet(currentPage, filePath, 0),
   cache |-> r.cache]

\* getCommitsForFile(filePath): the items returned, and loadedCommits,
\* currentPage and the service cache afterwards
getCommitsForFile(filePath, gitOk) ==
  IF filePath \in DOMAIN loadedCommits
    THEN [items |-> CommitListing(filePath, loadedCommits[filePath],
                                  MapGet(currentPage, filePath, 0)),
          loadedCommits |-> loadedCommits, currentPage |-> currentPage, cache |-> cache]
    ELSE LoadFirstPage(filePath, getLog(cache, filePath, 0, gitOk, now))

\* getChildren() in Focused mode, r being the answer of getFilesForCommit
RenderFocused(r) ==
  /\ rootListing' = Rendered(<<BackButtonItem>> \o r.items)
  /\ commitFiles' = r.commitFiles
  /\ cache' = r.cache
  /\ UNCHANGED <<loadedCommits, currentPage>>

\* getChildren() in Log mode, r being the answer of getCommitsForFile
RenderLog(r) ==
  /\ rootListing' = Rendered(r.items)
  /\ loadedCommits' = r.loadedCommits
  /\ currentPage' = r.currentPage
  /\ cache' = r.cache
  /\ UNCHANGED commitFiles

\* isValidRepo(): an async method, so what a call returns is a Promise of the
\* answer and not the answer
isValidRepo == [promise |-> isGitRepo \/ submoduleRepos # << >>]

\* !x of an object x: no object is falsy
NotObject(x) == FALSE

\* getChildren(): the tree view asks for the root listing. The test
\* `!this.gitService.isValidRepo()` is applied to the Promise
GetChildren ==
  /\ lastCall' = [op |-> "getChildren"]
  /\ IF NotObject(isValidRepo)
       THEN /\ rootListing' = Rendered(<<EmptyStateItem("Not a git repository")>>)
            /\ UNCHANGED <<cache, commitFiles, loadedCommits, currentPage>>
     ELSE IF ~Truthy(currentFilePath)
       THEN /\ rootListing' = Rendered(<<EmptyStateItem("Open a file to see git history")>>)
            /\ UNCHANGED <<cache, commitFiles, loadedCommits, currentPage>>
     ELSE IF Truthy(focusedCommitHash)
       THEN \E gitOk \in GitOutcomes :
              RenderFocused(getFilesForCommit(focusedCommitHash, gitOk))
     ELSE \E gitOk \in GitOutcomes :
              RenderLog(getCommitsForFile(currentFilePath, gitOk))
  /\ UNCHANGED <<currentFilePath, focusedCommitHash, allFoldersExpanded, manualFoldState>>
  /\ UNCHANGED <<now, got, blameVars, repoVars, svcVars, watcherVars, treeVars>>

NextView ==
  \/ \E editor \in Editors : HandleEditorChange(editor)
  \/ \E commitHash \in Commits : SetFocusedCommit(commitHash)
  \/ ClearFocusedCommit
  \/ FoldAll
  \/ UnfoldAll
  \/ Refresh
  \/ GetChildren

SpecView == InitView /\ [][NextView]_vars

(***************************************************************************)
(* View modes and fold policy                                              *)
(***************************************************************************)
IsRendered == rootListing.kind = "rendered"

\* the paths git reports as changed by a commit
ChangedPaths(commitHash) ==
  LET files == ParseNameStatus(GitShowNameStatus(commitHash))
  IN {files[i].path : i \in 1..Len(files)}

\* the listing is the Back item followed by the top level of the tree held
\* for the commit, whose files are the files changed by that commit
FocusedListing(items, commitHash) ==
  /\ Len(items) >= 1
  /\ items[1] = BackButtonItem
  /\ commitHash \in DOMAIN commitFiles
  /\ Tail(items) = MapGet(commitFiles[commitHash], << >>, << >>)
  /\ \A f \in NodesOf(commitFiles[commitHash], "file") :
       NodeAt(commitFiles[commitHash], f).commitHash = commitHash
  /\ {NodeAt(commitFiles[commitHash], f).path : f \in NodesOf(commitFiles[commitHash], "file")}
       = ChangedPaths(commitHash)

\* the listing is the commit list of the file: one Commit item per commit of
\* its history in order (the 'No history' item when there is none), and no
\* Back item
LogListing(items, filePath) ==
  /\ Truthy(filePath)
  /\ \A i \in 1..Len(items) : items[i] # BackButtonItem
  /\ LET commits == GitLog(CurrentRelativePath(filePath), 0)
     IN IF commits = << >>
          THEN items = <<EmptyStateItem("No history found for this file")>>
          ELSE items = [i \in 1..Len(commits) |-> CommitItem(commits[i], filePath)]

C4_EditorChangeWhileFocused ==
  [][\A editor \in Editors :
       (/\ lastCall' = [op |-> "handleEditorChange", editor |-> editor]
        /\ editor.scheme = "file"
        /\ Truthy(focusedCommitHash))
       => IF editor.fileName # currentFilePath
            THEN focusedCommitHash' = Undefined /\ currentFilePath' = editor.fileName
            ELSE focusedCommitHash' = focusedCommitHash]_vars

\* C5: every step that clears the focus (back, or a file switch in
\* handleEditorChange) leaves manualFoldState 'auto' and allFoldersExpanded
\* false.
C5_FoldResetOnFocusClear ==
  [][(Truthy(focusedCommitHash) /\ ~Truthy(focusedCommitHash'))
       => (manualFoldState' = "auto" /\ allFoldersExpanded' = FALSE)]_vars

\* C6: every step that enters Focused mode from Log mode enters it under the
\* auto policy, whatever foldAll/unfoldAll did before in Log mode.
C6_AutoOnEnteringFocus ==
  [][(~Truthy(focusedCommitHash) /\ Truthy(focusedCommitHash'))
       => (manualFoldState' = "auto" /\ allFoldersExpanded' = FALSE)]_vars

\* the folder states of a tree built under the fold policy in force
PolicyConforms(t) ==
  IF manualFoldState = "unfolded"
    THEN \A d \in NodesOf(t, "folder") : NodeAt(t, d).collapsibleState = "Expanded"
  ELSE IF manualFoldState = "folded" \/ ~TargetInTree(t, currentFilePath)
    THEN \A d \in NodesOf(t, "folder") : NodeAt(t, d).collapsibleState = "Collapsed"
  ELSE AutoExpandedTo(t, currentFilePath)

\* C7: whenever the root listing of Focused(h) is on display, the tree it
\* shows was built under the fold policy in force: a tree cached in
\* commitFiles under an earlier policy is never served.
C7_RenderedTreeMatchesPolicy ==
  (IsRendered /\ Truthy(currentFilePath) /\ Truthy(focusedCommitHash))
    => PolicyConforms(commitFiles[focusedCommitHash])

C12_BlameOutputShape ==
  lastCall.op = "parseBlameOutput" =>
    /\ Len(blameInfo) = Len(blameEntries)
    /\ \A i \in 1..Len(blameInfo) :
         /\ blameInfo[i].lineNumber = i
         /\ blameInfo[i].commitHash # << >>
         /\ \E k \in 1..Len(blameEntries) :
              /\ blameEntries[k].lineNumber = i
              /\ blameEntries[k].hash = blameInfo[i].commitHash

\* C12 witness: three header lines in descending line order, parsed
C12_Witness ==
  /\ lastCall.op = "parseBlameOutput"
  /\ Len(blameEntries) = 3
  /\ blameEntries[1].lineNumber = 3
  /\ blameEntries[3].lineNumber = 1
  /\ blameEntries[1].hash # blameEntries[3].hash
  /\ Len(blameInfo) = 3

\* the sequence without the records of one line
WithoutLine(records, lineNumber) ==
  SelectSeq(records, LAMBDA r : r.lineNumber # lineNumber)

\* C13: when one header line of a blame input is replaced by a line that does
\* not match the header shape, the output is the output for the original
\* input minus the record of that line: every other record keeps its author,
\* date and summary.
C13_MalformedLineIsolation ==
  lastCall.op = "parseCorruptedBlame" =>
    blameInfo = WithoutLine(parseBlameOutput(blameInput, now),
                            blameEntries[lastCall.replaced].lineNumber)

\* the input prints the metadata of commit h
MetadataSeen(es, h) == \E k \in 1..Len(es) : es[k].hash = h /\ es[k].meta = "full"

\* C14: a record of a commit whose metadata the input never prints has author
\* 'Unknown' and summary '', and no record of a commit whose metadata the
\* input prints has the placeholder author.
C14_PlaceholderPolicy ==
  lastCall.op = "parseBlameOutput" =>
    \A i \in 1..Len(blameInfo) :
      IF MetadataSeen(blameEntries, blameInfo[i].commitHash)
        THEN blameInfo[i].author # UnknownAuthor
        ELSE blameInfo[i].author = UnknownAuthor /\ blameInfo[i].summary = << >>

(***************************************************************************)
(* Specification SpecService: the read operations of GitService, each call *)
(* split at its await of the git query                                     *)
(***************************************************************************)
MaxCalls == 2

\* a read operation with its arguments (Undefined / 0 where it has none)
Query(op, commitHash, filePath, page) ==
  [op |-> op, commitHash |-> commitHash, filePath |-> filePath, page |-> page]

\* the calls the callers of the service make
Queries ==
  {Query("getLog", Undefined, FA, 0), Query("getLog", Undefined, FA, 1),
   Query("getLog", Undefined, FB, 0),
   Query("getChangedFiles", H1, FA, 0),
   Query("getParentCommit", H1, FA, 0), Query("getParentCommit", H2, FA, 0),
   Query("getFileContent", H1, FA, 0), Query("getFileContent", H2, FA, 0),
   Query("getBlame", Undefined, FA, 0),
   Query("getGitHubRemoteUrl", Undefined, FA, 0)}

\* `git rev-parse <commit>^`: the parent; Undefined where git fails (H1 is the
\* root commit)
GitRevParseParent(commitHash) == IF commitHash = H2 THEN H1 ELSE Undefined

\* `git show <commit>:<path>`: the content ('' for the file as added empty by
\* H1); Undefined where git fails
GitShowContent(commitHash, relativePath) ==
  IF relativePath # <<"d", "/", "a">> THEN Undefined
  ELSE IF commitHash = H1 THEN << >> ELSE <<"x">>

\* `git blame --porcelain <path>`
GitBlamePorcelain(relativePath) ==
  BlameText(<<[hash |-> H2, meta |-> "full", lineNumber |-> 1]>>)

\* `git remote -v`: the fetch url of origin
GitOriginUrl ==
  <<"g", "i", "t", "@", "g", "i", "t", "h", "u", "b", ".", "c", "o", "m", ":",
    "o", "/", "r", ".", "g", "i", "t">>

GitHubHost == <<"g", "i", "t", "h", "u", "b", ".", "c", "o", "m">>
DotGit == <<".", "g", "i", "t">>
GitHubPrefix == <<"h", "t", "t", "p", "s", ":", "/", "/">> \o GitHubHost \o <<"/">>

\* the text after `github.com:` or `github.com/` at offset i, where the rest
\* of /github\.com[:/]([^/]+)\/([^/]+?)(?:\.git)?$/ has to match
AfterHost(url, i) == Slice(url, i + Len(GitHubHost) + 1)

\* ([^/]+)\/([^/]+?)(?:\.git)?$ matches all of rest: one '/', with text on
\* both sides
IsOwnerRepo(rest) ==
  /\ Len(SelectSeq(rest, LAMBDA ch : ch = "/")) = 1
  /\ rest[1] # "/"
  /\ rest[Len(rest)] # "/"

\* the offsets at which the pattern matches
GitHubMatches(url) ==
  {i \in 0..(Len(url) - Len(GitHubHost) - 1) :
     /\ SubSeq(url, i + 1, i + Len(GitHubHost)) = GitHubHost
     /\ url[i + Len(GitHubHost) + 1] \in {":", "/"}
     /\ IsOwnerRepo(AfterHost(url, i))}

\* match[2]: the lazy group gives a trailing .git to the optional group
\* whenever it keeps one character
RepoName(name) ==
  IF EndsWith(name, DotGit) /\ Len(name) > Len(DotGit)
    THEN SubSeq(name, 1, Len(name) - Len(DotGit)) ELSE name

\* `https://github.com/${match[1]}/${match[2]}` of the text after the host
GitHubUrlOf(rest) ==
  GitHubPrefix \o Split(rest, {"/"})[1] \o <<"/">> \o RepoName(Split(rest, {"/"})[2])

\* the url getGitHubRemoteUrl makes of the url of origin; Undefined for null
ParseGitHubUrl(url) ==
  IF GitHubMatches(url) = {} THEN Undefined
  ELSE GitHubUrlOf(AfterHost(url, CHOOSE i \in GitHubMatches(url) :
                                    \A j \in GitHubMatches(url) : i <= j))

GitAnswer(ok, value) == [ok |-> ok, value |-> value]

\* the path handed to git for the file of a query
QueryRelativePath(q) ==
  getRelativePathForRepo(q.filePath, getRepoForFile(q.filePath).root)

\* the try block of a read operation after the cache and repository tests:
\* whether the git call returned and the value the operation makes of it at
\* time t
GitQuery(q, gitOk, t) ==
  IF q.op = "getLog"
    THEN GitAnswer(gitOk, GitLog(QueryRelativePath(q), q.page * PageSize))
  ELSE IF q.op = "getChangedFiles"
    THEN GitAnswer(gitOk, ParseNameStatus(GitShowNameStatus(q.commitHash)))
  ELSE IF q.op = "getParentCommit"
    THEN GitAnswer(gitOk /\ GitRevParseParent(q.commitHash) # Undefined,
                   GitRevParseParent(q.commitHash))
  ELSE IF q.op = "getFileContent"
    THEN GitAnswer(gitOk /\ GitShowContent(q.commitHash, QueryRelativePath(q)) # Undefined,
                   GitShowContent(q.commitHash, QueryRelativePath(q)))
  ELSE IF q.op = "getGitHubRemoteUrl"
    THEN GitAnswer(gitOk, ParseGitHubUrl(GitOriginUrl))
  ELSE GitAnswer(gitOk, parseBlameOutput(GitBlamePorcelain(QueryRelativePath(q)), t))

\* an empty list from every catch block
EmptyResultAlwaysList(q) == << >>

\* what the catch block, or the test for a missing repository, returns:
\* [] or '', and null for getParentCommit and getGitHubRemoteUrl
EmptyResult(q) ==
  IF q.op \in {"getParentCommit", "getGitHubRemoteUrl"} THEN Undefined ELSE << >>

\* the operations that read and write the cache
CachedOps == {"getLog", "getChangedFiles", "getFileContent", "getBlame"}

QueryKey(q) ==
  IF q.op = "getLog" THEN KeyLog(q.filePath, q.page)
  ELSE IF q.op = "getChangedFiles" THEN KeyFiles(q.commitHash)
  ELSE IF q.op = "getFileContent" THEN KeyContent(q.commitHash, q.filePath)
  ELSE KeyBlame(q.filePath)

\* the filePath of the metadata handed to cache.set
QueryTag(q) == IF q.op = "getChangedFiles" THEN << >> ELSE q.filePath

\* `const cached = this.cache.get(cacheKey); if (cached)`: holds for every
\* stored array and for every stored string but ''
CacheHit(c, q) ==
  /\ q.op \in CachedOps
  /\ QueryKey(q) \in DOMAIN c
  /\ q.op = "getFileContent" => c[QueryKey(q)].data # << >>

\* `if (!repo) return ...`; getChangedFiles, getParentCommit and
\* getGitHubRemoteUrl fall back to the main repository when given no file
NoRepo(q) ==
  /\ q.op \in {"getChangedFiles", "getParentCommit", "getGitHubRemoteUrl"} => Truthy(q.filePath)
  /\ getRepoForFile(q.filePath) = NullRepo

\* a call as it starts. Beside its arguments it records, for the properties,
\* how many calls had returned when it started and that invalidateCache has
\* not run since
NewCall(q) ==
  [id |-> Len(done) + Cardinality(pending) + 1, query |-> q,
   started |-> Len(done), clean |-> TRUE]

\* a call that has returned: its result, whether it invoked git and whether
\* it returned from its try block
Returned(call, result, git, ok) ==
  [query |-> call.query, result |-> result, git |-> git, ok |-> ok,
   started |-> call.started, clean |-> call.clean]

InitService ==
  /\ CacheIdle
  /\ now = 0
  /\ lastCall = [op |-> "new"]
  /\ BlameIdle
  /\ RepoIdle
  /\ ServiceIdle
  /\ WatcherIdle
  /\ ViewIdle
  /\ TreeIdle

\* a read operation is called and runs up to its return or to the await of
\* its git query
StartCall(q) ==
  /\ Len(done) + Cardinality(pending) < MaxCalls
  /\ lastCall' = [op |-> "call", query |-> q]
  /\ IF q.op \in {"getLog", "getBlame"} /\ NoRepo(q)
       THEN /\ done' = Append(done, Returned(NewCall(q), EmptyResult(q), FALSE, FALSE))
            /\ UNCHANGED pending
     ELSE IF CacheHit(cache, q)
       THEN /\ done' = Append(done, Returned(NewCall(q), cache[QueryKey(q)].data, FALSE, TRUE))
            /\ UNCHANGED pending
     ELSE IF NoRepo(q)
       THEN /\ done' = Append(done, Returned(NewCall(q), EmptyResult(q), FALSE, FALSE))
            /\ UNCHANGED pending
     ELSE /\ pending' = pending \cup {NewCall(q)}
          /\ UNCHANGED done
  /\ UNCHANGED <<cacheVars, fetched, blameVars, repoVars, watcherVars, viewVars, treeVars>>

\* a variant whose catch block stores the empty result it returns
CacheAfterReturnOrCatch(call, r) ==
  IF call.query.op \in CachedOps
    THEN CacheSetValue(cache, QueryKey(call.query),
                       IF r.ok THEN r.value ELSE EmptyResult(call.query),
                       QueryTag(call.query), call.query.commitHash, now)
    ELSE cache

\* the cache when the call returns: cache.set is the statement before the
\* return of the try block, the catch block has none
CacheAfterReturn(call, r) ==
  IF r.ok /\ call.query.op \in CachedOps
    THEN CacheSetValue(cache, QueryKey(call.query), r.value,
                       QueryTag(call.query), call.query.commitHash, now)
    ELSE cache

\* the git query of a call returns the answer r: the call writes the cache
\* and returns, or returns its empty result from the catch block
FinishCall(call, r) ==
  /\ pending' = pending \ {call}
  /\ lastCall' = [op |-> "return", id |-> call.id, ok |-> r.ok]
  /\ cache' = CacheAfterReturn(call, r)
  /\ IF r.ok
       THEN /\ done' = Append(done, Returned(call, r.value, TRUE, TRUE))
            /\ fetched' = fetched \cup {call.query}
       ELSE /\ done' = Append(done, Returned(call, EmptyResult(call.query), TRUE, FALSE))
            /\ UNCHANGED fetched
  /\ UNCHANGED <<now, got, blameVars, repoVars, watcherVars, viewVars, treeVars>>

\* whether the git query of q can succeed: a query given no file runs on
\* mainGit, which fails when the workspace is not a repository
GitOutcomesOf(q) == IF Truthy(q.filePath) \/ isGitRepo THEN BOOLEAN ELSE {FALSE}

CompleteCall(call) ==
  \E gitOk \in GitOutcomesOf(call.query) : FinishCall(call, GitQuery(call.query, gitOk, now))

\* invalidateCache(), as the refresh command and the watcher callback call
\* it; the calls awaiting git go on
InvalidateCache ==
  /\ cache' = CacheInvalidateValue(cache, Undefined)
  /\ fetched' = {}
  /\ pending' = {[call EXCEPT !.clean = FALSE] : call \in pending}
  /\ lastCall' = [op |-> "invalidateCache"]
  /\ UNCHANGED <<now, got, done, blameVars, repoVars, watcherVars, viewVars, treeVars>>

NextService ==
  \/ \E q \in Queries : StartCall(q)
  \/ \E call \in pending : CompleteCall(call)
  \/ InvalidateCache
  \/ Tick

SpecService == InitService /\ [][NextService]_vars


(***************************************************************************)
(* Caching of the read operations, checked on SpecService                  *)
(***************************************************************************)
\* C15: a call of a read operation whose arguments a call has succeeded with
\* before, with no invalidation since, does not invoke git: it returns
\* without awaiting a git query, whatever the payload of the first call was
C15_SecondCallServedFromCache ==
  [][(lastCall'.op = "call" /\ lastCall'.query \in fetched) => pending' = pending]_vars


LogQueries == {q \in Queries : q.op = "getLog"}

\* the page of the history that the git log of a getLog call reports
LogPage(q) == GitLog(QueryRelativePath(q), q.page * PageSize)

\* C16: two getLog calls have the same cache key exactly when their file and
\* their page are equal; a getLog call that finds an entry under its key
\* returns the stored list without a git log, and the stored list is the page
\* of its own file and page number, never the one of another call
C16_LogCacheKeying ==
  [][/\ \A q1, q2 \in LogQueries :
          QueryKey(q1) = QueryKey(q2) <=> (q1.filePath = q2.filePath /\ q1.page = q2.page)
     /\ (/\ lastCall'.op = "call"
         /\ lastCall'.query.op = "getLog"
         /\ QueryKey(lastCall'.query) \in DOMAIN cache)
        => /\ pending' = pending
           /\ done' = Append(done, Returned(NewCall(lastCall'.query),
                                            cache[QueryKey(lastCall'.query)].data,
                                            FALSE, TRUE))
           /\ cache[QueryKey(lastCall'.query)].data = LogPage(lastCall'.query)
           /\ cache' = cache]_vars

\* a getLog call was answered from the entry that an earlier call stored
C16_Witness ==
  /\ Len(done) = 2
  /\ done[2].query.op = "getLog"
  /\ ~done[2].git
  /\ done[2].result # << >>
  /\ done[1].query = done[2].query
  /\ done[1].git


(***************************************************************************)
(* Lifetime of cache entries, checked on SpecCache                         *)
(***************************************************************************)
\* invalidate(filePath) covers the entries tagged with that path, and
\* invalidate() covers every entry
Covers(filePath, entry) == filePath = Undefined \/ entry.filePath = filePath

\* C17: entries never expire. get(k) returns the payload stored under k and
\* changes no entry, the passage of time changes no entry, set(k, d) stores d
\* under k and changes no other entry, and invalidate removes the entries it
\* covers and no other: so get(k) returns the payload of the latest set(k, .)
\* unless a later invalidate covered it
C17_EntriesNeverExpire ==
  [][/\ lastCall'.op = "get" =>
          /\ cache' = cache
          /\ got' = IF lastCall'.key \in DOMAIN cache
                      THEN cache[lastCall'.key].data ELSE Undefined
     /\ lastCall'.op = "tick" => cache' = cache
     /\ lastCall'.op = "set" =>
          /\ lastCall'.key \in DOMAIN cache'
          /\ cache'[lastCall'.key].data = lastCall'.data
          /\ \A k \in DOMAIN cache \ {lastCall'.key} :
               k \in DOMAIN cache' /\ cache'[k] = cache[k]
     /\ lastCall'.op = "invalidate" =>
          \A k \in DOMAIN cache :
            IF Covers(lastCall'.filePath, cache[k])
              THEN k \notin DOMAIN cache'
              ELSE k \in DOMAIN cache' /\ cache'[k] = cache[k]]_vars


(***************************************************************************)
(* Specification SpecWatcher: the debounced change handler of GitWatcher,  *)
(* with the clock `now` counting milliseconds                              *)
(***************************************************************************)
DebounceMs == 500

MaxEvents == 3
MaxTime == 1500
TimeStep == 100

\* a timer that stays armed whatever arrives after it
KeepDeadline(armed, t) == IF armed # NoTimer THEN armed ELSE t + DebounceMs

\* `if (timeout) clearTimeout(timeout); timeout = setTimeout(..., 500)` at
\* time t: the time at which the one armed timer is due. `timeout` is the
\* due time of the armed timer; the handle of a timer that has fired stays in
\* the closure, where clearTimeout does nothing with it
NextDeadline(armed, t) == t + DebounceMs

InitWatcher ==
  /\ CacheIdle
  /\ now = 0
  /\ lastCall = [op |-> "new"]
  /\ BlameIdle
  /\ RepoIdle
  /\ ServiceIdle
  /\ WatcherIdle
  /\ ViewIdle
  /\ TreeIdle

\* the armed timer is due
TimerDue == timeout # NoTimer /\ now >= timeout

\* onDidChange / onDidCreate / onDidDelete: debouncedChange runs. A due timer
\* runs before the callbacks of file events are delivered; a disposed
\* FileSystemWatcher delivers none
ChangeEvent ==
  /\ Len(eventTimes) < MaxEvents
  /\ ~disposed
  /\ ~TimerDue
  /\ timeout' = NextDeadline(timeout, now)
  /\ eventTimes' = Append(eventTimes, now)
  /\ lastCall' = [op |-> "change"]
  /\ UNCHANGED <<cache, now, got, callbackCount, disposed, blameVars, repoVars, svcVars,
                 viewVars, treeVars>>

\* the timer fires: this.onChangeCallback()
FireTimer ==
  /\ TimerDue
  /\ timeout' = NoTimer
  /\ callbackCount' = callbackCount + 1
  /\ lastCall' = [op |-> "callback"]
  /\ UNCHANGED <<cache, now, got, eventTimes, disposed, blameVars, repoVars, svcVars,
                 viewVars, treeVars>>

\* time passes, up to the time at which the armed timer is due
Elapse ==
  /\ ~TimerDue
  /\ now + TimeStep <= MaxTime
  /\ now' = IF timeout # NoTimer /\ timeout < now + TimeStep THEN timeout ELSE now + TimeStep
  /\ lastCall' = [op |-> "elapse"]
  /\ UNCHANGED <<cache, got, watcherVars, blameVars, repoVars, svcVars, viewVars, treeVars>>

NextWatcher ==
  \/ ChangeEvent
  \/ FireTimer
  \/ Elapse

SpecWatcher == InitWatcher /\ [][NextWatcher]_vars

\* the number of bursts in a sequence of event times: an event starts a burst
\* when it is the first or follows the one before by the quiet period or more
NumBursts(times) ==
  Cardinality({i \in DOMAIN times : i = 1 \/ times[i] - times[i - 1] >= DebounceMs})

\* C18: the callback is invoked once per burst of change events and never
\* once per event: each invocation comes a quiet period after the last event
\* seen, it is the one invocation of the burst that this event ends, and the
\* bursts seen are those answered by a callback plus the one whose timer is
\* armed
C18_DebouncedInvalidation ==
  [][/\ lastCall'.op = "callback" =>
          /\ eventTimes # << >>
          /\ now = eventTimes[Len(eventTimes)] + DebounceMs
          /\ callbackCount' = NumBursts(eventTimes)
     /\ NumBursts(eventTimes') = callbackCount' + (IF timeout' # NoTimer THEN 1 ELSE 0)]_vars

\* one callback has answered a burst of three events
C18_Witness ==
  /\ callbackCount = 1
  /\ Len(eventTimes) = 3
  /\ NumBursts(eventTimes) = 1
  /\ eventTimes[3] > eventTimes[1]
  /\ timeout = NoTimer


(***************************************************************************)
(* Refresh after a repository change, checked on SpecView                  *)
(***************************************************************************)
\* C19: the rendering that follows a processed change notification (cache
\* invalidated, view refreshed) is computed from a fresh git query: rendering
\* the log of the tracked file queries git log, and rendering the tree of the
\* focused commit queries the changed files, each leaving its entry in the
\* cache that the notification emptied
C19_RefreshQueriesGitAgain ==
  [][(/\ lastCall.op = "refresh"
      /\ lastCall'.op = "getChildren"
      /\ Truthy(currentFilePath))
     => IF Truthy(focusedCommitHash)
          THEN KeyFiles(focusedCommitHash) \in DOMAIN cache'
          ELSE KeyLog(currentFilePath, 0) \in DOMAIN cache']_vars


(***************************************************************************)
(* Overlapping calls, checked on SpecService                               *)
(***************************************************************************)
\* the calls i and j of `done`, i returned first, are two calls of one
\* operation with the same arguments that both made their git query and
\* returned its answer, j started before i returned, and invalidateCache ran
\* during neither
Overlapped(i, j) ==
  /\ i < j
  /\ done[i].query = done[j].query
  /\ done[i].git /\ done[j].git
  /\ done[i].ok /\ done[j].ok
  /\ done[i].clean /\ done[j].clean
  /\ done[j].started < i

\* the cache holds the result of the returned call under the key of the call
HeldInCache(call) ==
  \E k \in DOMAIN cache :
    /\ cache[k].data = call.result
    /\ call.query.op \in CachedOps => k = QueryKey(call.query)

\* C20: when two calls of the same read operation with the same arguments
\* overlap and no invalidation occurs, both return the same result, and when
\* the second has returned the cache holds that result under their key
C20_OverlappingCallsConverge ==
  \A i, j \in DOMAIN done :
    Overlapped(i, j) =>
      /\ done[i].result = done[j].result
      /\ (j = Len(done) /\ lastCall.op = "return") => HeldInCache(done[j])


(***************************************************************************)
(* Failing git queries, checked on SpecService                             *)
(***************************************************************************)
\* the value the contract gives a failed query: the empty list, the empty
\* string, or null
FailureValue(op) ==
  IF op \in {"getLog", "getChangedFiles", "getBlame"} THEN << >>
  ELSE IF op = "getFileContent" THEN << >>
  ELSE Undefined

\* C22: when the git query of a call fails the call returns to its caller,
\* and what it returns is the empty list for getLog, getChangedFiles and
\* getBlame, the empty string for getFileContent and null for
\* getParentCommit and getGitHubRemoteUrl
C22_FailuresReturnEmpty ==
  [][(lastCall'.op = "return" /\ ~lastCall'.ok) =>
       \E call \in pending :
         /\ call.id = lastCall'.id
         /\ pending' = pending \ {call}
         /\ Len(done') = Len(done) + 1
         /\ done'[Len(done')].query = call.query
         /\ done'[Len(done')].git
         /\ done'[Len(done')].result = FailureValue(call.query.op)]_vars

\* a getFileContent call and a getParentCommit call have both failed
C22_Witness ==
  /\ Len(done) = 2
  /\ \A i \in 1..2 : done[i].git /\ ~done[i].ok
  /\ done[1].query.op = "getFileContent" /\ done[1].result = << >>
  /\ done[2].query.op = "getParentCommit" /\ done[2].result = Undefined
  /\ done[2].query.commitHash = H2


\* the gitHistory.viewDiff command on the parent hash it was given: the
\* message for a falsy hash, or the diff of parent and commit
FirstCommitMessage == "This is the first commit"
viewDiff(parentHash) == IF ~Truthy(parentHash) THEN FirstCommitMessage ELSE "vscode.diff"

\* C23: the outcome of getParentCommit for a commit without parent differs
\* from its outcome for a failed lookup, so viewDiff reports the first commit
\* only for a commit that has no parent
C23_RootCommitDistinguished ==
  \A i \in DOMAIN done :
    (done[i].query.op = "getParentCommit" /\ viewDiff(done[i].result) = FirstCommitMessage)
      => GitRevParseParent(done[i].query.commitHash) = Undefined


(***************************************************************************)
(* Specification SpecNoRepo: the extension in a workspace that is not a    *)
(* git repository and has no submodules                                    *)
(***************************************************************************)
\* the calls that give the service no file
NoFileQueries ==
  {Query("getChangedFiles", H1, Undefined, 0),
   Query("getParentCommit", H2, Undefined, 0),
   Query("getGitHubRemoteUrl", Undefined, Undefined, 0)}

\* the tree view was given no data provider
NoProvider == [kind |-> "no provider"]

InitNoRepo ==
  /\ CacheIdle
  /\ now = 0
  /\ lastCall = [op |-> "new"]
  /\ BlameIdle
  /\ isGitRepo = FALSE
  /\ submoduleRepos = << >>
  /\ ServiceIdle
  /\ WatcherIdle
  /\ ViewIdle
  /\ TreeIdle

\* the asynchronous part of activate(): `await gitService.isValidRepo()`,
\* then the provider and the tree view are created if the answer is true and
\* 'Not a git repository' is logged to the console if not
Activate ==
  /\ rootListing = NotRendered
  /\ lastCall' = [op |-> "activate"]
  /\ rootListing' = IF isValidRepo.promise THEN NotRendered ELSE NoProvider
  /\ UNCHANGED <<currentFilePath, loadedCommits, currentPage, commitFiles,
                 focusedCommitHash, allFoldersExpanded, manualFoldState>>
  /\ UNCHANGED <<cacheVars, blameVars, repoVars, svcVars, watcherVars, treeVars>>

NextNoRepo ==
  \/ \E q \in Queries \cup NoFileQueries : StartCall(q)
  \/ \E call \in pending : CompleteCall(call)
  \/ InvalidateCache
  \/ Tick
  \/ Activate

SpecNoRepo == InitNoRepo /\ [][NextNoRepo]_vars

\* C24: when the resolver finds no owning root, every service query returns
\* its empty result, and the root listing of the view is the single item
\* 'Not a git repository'
C24_NotARepository ==
  /\ \A i \in DOMAIN done : done[i].result = FailureValue(done[i].query.op)
  /\ rootListing # NotRendered
       => rootListing = Rendered(<<EmptyStateItem("Not a git repository")>>)


(***************************************************************************)
(* Specification SpecResolve: getRepoForFile and getRelativePathForRepo    *)
(* applied to the files of a workspace with submodules                     *)
(***************************************************************************)
MaxSubmodules == 2

\* the submodule paths `git submodule status` may list, in the order it
\* lists them
SubmodulePaths == <<<<"s">>, <<"s", "2">>, <<"t">>>>

\* the lists of submodules detected: the paths of a set of submodules, in
\* that order
SubmoduleLists ==
  {SelectSeq(SubmodulePaths, LAMBDA p : p \in chosen) :
     chosen \in {c \in SUBSET {SubmodulePaths[i] : i \in DOMAIN SubmodulePaths} :
                   Cardinality(c) <= MaxSubmodules}}

\* file paths handed to the service: files of the submodules, of the
\* directory sx beside the submodule s, of the main repository (one with a
\* backslash in its name, one given with a '..' segment) and one outside the
\* workspace
ResolveFiles ==
  {WorkspaceRoot \o <<"/", "s", "/", "f">>,
   WorkspaceRoot \o <<"/", "s", "2", "/", "f">>,
   WorkspaceRoot \o <<"/", "t", "/", "f">>,
   WorkspaceRoot \o <<"/", "s", "x", "/", "f">>,
   WorkspaceRoot \o <<"/", "f">>,
   WorkspaceRoot \o <<"/", "u", "\\", "f">>,
   WorkspaceRoot \o <<"/", "u", "/", ".", ".", "/", "t", "/", "f">>,
   <<"/", "x", "/", "f">>}

\* the roots of the repositories known to the service
SubmoduleRoots == {PathJoin(WorkspaceRoot, submoduleRepos[i]) : i \in DOMAIN submoduleRepos}
KnownRoots == {WorkspaceRoot} \cup SubmoduleRoots

InitResolve ==
  /\ CacheIdle
  /\ now = 0
  /\ lastCall = [op |-> "new"]
  /\ BlameIdle
  /\ isGitRepo = TRUE
  /\ submoduleRepos \in SubmoduleLists
  /\ ServiceIdle
  /\ WatcherIdle
  /\ ViewIdle
  /\ TreeIdle

\* getRepoForFile(filePath) is called
ResolveRepo(filePath) ==
  /\ lastCall' = [op |-> "getRepoForFile", filePath |-> filePath,
                  repo |-> getRepoForFile(filePath)]
  /\ UNCHANGED <<cacheVars, blameVars, repoVars, svcVars, watcherVars, viewVars, treeVars>>

\* the answer of getRelativePathForRepo and the answer for that answer
RelativizeTwice(filePath, repoRoot, relativePath) ==
  [op |-> "getRelativePathForRepo", filePath |-> filePath, repoRoot |-> repoRoot,
   result |-> relativePath, again |-> getRelativePathForRepo(relativePath, repoRoot)]

\* getRelativePathForRepo(filePath, repoRoot) is called, and called again on
\* its result
Relativize(filePath, repoRoot) ==
  /\ lastCall' = RelativizeTwice(filePath, repoRoot,
                                 getRelativePathForRepo(filePath, repoRoot))
  /\ UNCHANGED <<cacheVars, blameVars, repoVars, svcVars, watcherVars, viewVars, treeVars>>

NextResolve ==
  \/ \E filePath \in ResolveFiles : ResolveRepo(filePath)
  \/ \E filePath \in ResolveFiles, repoRoot \in KnownRoots : Relativize(filePath, repoRoot)

SpecResolve == InitResolve /\ [][NextResolve]_vars

\* the file is the directory root or lies below it
IsUnder(filePath, root) ==
  PathNormalize(filePath) = root \/ StartsWith(PathNormalize(filePath), root \o <<PathSep>>)

\* the longest known root that is a path prefix of the file; the main root
\* for a file inside no submodule
OwningRoot(filePath) ==
  IF \E r \in SubmoduleRoots : IsUnder(filePath, r)
    THEN CHOOSE r \in SubmoduleRoots :
           /\ IsUnder(filePath, r)
           /\ \A r2 \in SubmoduleRoots : IsUnder(filePath, r2) => Len(r2) <= Len(r)
    ELSE WorkspaceRoot

\* C25: getRepoForFile returns the known root that is the longest path prefix
\* of the file; a file inside no submodule, one in a directory whose name
\* starts with the name of a submodule included, resolves to the main root
C25_LongestPrefixRoot ==
  lastCall.op = "getRepoForFile" =>
    lastCall.repo = RepoInfo(OwningRoot(lastCall.filePath))


\* the path of a file under root, relative to root: what follows the root
\* and one separator
RelativeTo(filePath, root) ==
  IF PathNormalize(filePath) = root THEN << >>
  ELSE SubSeq(PathNormalize(filePath), Len(root) + 2, Len(PathNormalize(filePath)))

\* C26: getRelativePathForRepo(p, root) is the path of p relative to root
\* with '/' as separator when p is under root, p itself with '/' as
\* separator when p is not under root, and applying it to its own result
\* returns that result
C26_Relativize ==
  lastCall.op = "getRelativePathForRepo" =>
    /\ lastCall.result =
         IF IsUnder(lastCall.filePath, lastCall.repoRoot)
           THEN BackslashToSlash(RelativeTo(lastCall.filePath, lastCall.repoRoot))
           ELSE BackslashToSlash(lastCall.filePath)
    /\ lastCall.again = lastCall.result


(***************************************************************************)
(* Specification SpecParse: the name-status parser of getChangedFiles      *)
(* applied to outputs of `git show --name-status`                          *)
(***************************************************************************)
MaxStatusLines == 3

\* a line of the output: the status code and the changed path, with the
\* path of origin for a rename; or a blank line
StatusLine(code, origin, path) == [code |-> code, origin |-> origin, path |-> path]
BlankLine == StatusLine(<< >>, << >>, << >>)

StatusLineSet ==
  {StatusLine(<<"A">>, << >>, <<"d", "/", "a">>),
   StatusLine(<<"M">>, << >>, <<"b">>),
   StatusLine(<<"D">>, << >>, <<"f", "/", "g">>),
   StatusLine(<<"T">>, << >>, <<"b">>),
   StatusLine(<<"R", "1", "0", "0">>, <<"b">>, <<"d", "/", "e">>),
   BlankLine}

\* the text git prints for a line: code, tab, for a rename the origin and a
\* tab, path
StatusLineText(l) ==
  IF l = BlankLine THEN <<"\n">>
  ELSE l.code \o <<"\t">> \o (IF l.origin = << >> THEN << >> ELSE l.origin \o <<"\t">>)
       \o l.path \o <<"\n">>

RECURSIVE NameStatusText(_)
NameStatusText(ls) ==
  IF ls = << >> THEN << >> ELSE StatusLineText(Head(ls)) \o NameStatusText(Tail(ls))

NameStatusOutputs == UNION {[1..n -> StatusLineSet] : n \in 1..MaxStatusLines}

InitParse ==
  /\ CacheIdle
  /\ now = 0
  /\ lastCall = [op |-> "new"]
  /\ BlameIdle
  /\ RepoIdle
  /\ ServiceIdle
  /\ WatcherIdle
  /\ ViewIdle
  /\ TreeIdle

\* the try block of getChangedFiles parses the output printed for ls
ParseStatus(ls) ==
  /\ lastCall' = [op |-> "parseNameStatus", lines |-> ls,
                  files |-> ParseNameStatus(NameStatusText(ls))]
  /\ UNCHANGED <<cacheVars, blameVars, repoVars, svcVars, watcherVars, viewVars, treeVars>>

NextParse == \E ls \in NameStatusOutputs : ParseStatus(ls)

SpecParse == InitParse /\ [][NextParse]_vars

\* the status that the first character of a status code stands for
StatusByLetter(code) ==
  IF code[1] = "A" THEN "added"
  ELSE IF code[1] = "D" THEN "deleted"
  ELSE "modified"

\* C27: every line made of a status code, white space and a path yields one
\* ChangedFile, in input order, with the status of the first character of
\* the code and with the changed path alone as its path; blank lines yield
\* nothing
C27_NameStatusParsing ==
  lastCall.op = "parseNameStatus" =>
    lastCall.files =
      [i \in 1..Len(SelectSeq(lastCall.lines, LAMBDA l : l # BlankLine)) |->
         [path |-> SelectSeq(lastCall.lines, LAMBDA l : l # BlankLine)[i].path,
          status |-> StatusByLetter(SelectSeq(lastCall.lines, LAMBDA l : l # BlankLine)[i].code)]]


(***************************************************************************)
(* Purity of the tree builder, checked on SpecTree                         *)
(***************************************************************************)
\* the file lists that hold the files of fs in another order
Reorderings(fs) ==
  {[i \in 1..Len(fs) |-> fs[p[i]]] :
     p \in {q \in [1..Len(fs) -> 1..Len(fs)] :
              \A i, j \in 1..Len(fs) : i # j => q[i] # q[j]}}

\* the tree getFilesForCommit makes of a file list: built, and in fold state
\* 'auto' expanded to the current file
TreeOfFiles(fs, expand) ==
  IF expand
    THEN expandFoldersToCurrentFile(
           buildFileTree(fs, focusedCommitHash, currentFilePath, allFoldersExpanded),
           currentFilePath)
    ELSE buildFileTree(fs, focusedCommitHash, currentFilePath, allFoldersExpanded)

\* C28: the tree built from a file list, a tracked file and a fold policy is
\* the tree built from the same files, tracked file and policy again, in
\* whatever order the files are listed: same folder paths, same child lists
\* in the same order, same expanded flags
C28_TreeBuildPure ==
  TreeBuilt =>
    \A fs \in Reorderings(treeFiles) :
      TreeOfFiles(fs, lastCall.op = "expandFoldersToCurrentFile") = tree

\* a tree with folders was built from three files listed in descending order
\* of path and expanded to the current file
C28_Witness ==
  /\ lastCall.op = "expandFoldersToCurrentFile"
  /\ Len(treeFiles) = 3
  /\ treeFiles[1].path = <<"f", "/", "a">>
  /\ treeFiles[2].path = <<"d", "/", "a">>
  /\ treeFiles[3].path = <<"b">>
  /\ currentFilePath = FA
  /\ Cardinality(DOMAIN tree) = 3


(***************************************************************************)
(* Uniform fold policies, checked on SpecView                              *)
(***************************************************************************)
\* every FolderItem of tree t has the collapsible state cs
FoldersAll(t, cs) ==
  \A pos \in NodesOf(t, "folder") : NodeAt(t, pos).collapsibleState = cs

\* getChildren has just produced the tree of the focused commit
FocusedTreeProduced ==
  /\ lastCall.op = "getChildren"
  /\ Truthy(currentFilePath)
  /\ Truthy(focusedCommitHash)

\* C29: the tree getChildren produces for the focused commit after unfoldAll
\* has every folder expanded, and the one it produces after foldAll has every
\* folder collapsed, the ancestors of the tracked file included
C29_UniformFoldPolicies ==
  FocusedTreeProduced /\ manualFoldState # "auto" =>
    /\ focusedCommitHash \in DOMAIN commitFiles
    /\ FoldersAll(commitFiles[focusedCommitHash],
                  IF manualFoldState = "unfolded" THEN "Expanded" ELSE "Collapsed")

\* the tree of H1 was produced after foldAll while /w/d/a is tracked: the
\* tree holds d/a, and its folders d, d/e and f are collapsed
C29_Witness ==
  /\ FocusedTreeProduced
  /\ manualFoldState = "folded"
  /\ currentFilePath = FA
  /\ focusedCommitHash = H1
  /\ H1 \in DOMAIN commitFiles
  /\ \E pos \in NodesOf(commitFiles[H1], "file") :
       NodeAt(commitFiles[H1], pos).path = <<"d", "/", "a">>
  /\ {NodeAt(commitFiles[H1], pos).path : pos \in NodesOf(commitFiles[H1], "folder")}
       = {<<"d">>, <<"d", "/", "e">>, <<"f">>}


(***************************************************************************)
(* Pagination of getLog                                                    *)
(***************************************************************************)
MaxPage == 3

\* the files whose log is asked for: l has 120 commits, b has one
PagedFiles == {FL, FB}

InitPages ==
  /\ CacheIdle
  /\ now = 0
  /\ lastCall = [op |-> "new"]
  /\ BlameIdle
  /\ RepoIdle
  /\ ServiceIdle
  /\ WatcherIdle
  /\ ViewIdle
  /\ TreeIdle

\* the commits of an answer of getLog and the cache after it
LogCalled(filePath, page, gitOk, r) ==
  /\ cache' = r.cache
  /\ lastCall' = [op |-> "getLog", filePath |-> filePath, page |-> page,
                  ok |-> gitOk \/ KeyLog(filePath, page) \in DOMAIN cache,
                  commits |-> r.commits]

\* one call getLog(filePath, page), with a git binary that answers or fails
GetLogPage(filePath, page) ==
  /\ \E gitOk \in BOOLEAN :
       LogCalled(filePath, page, gitOk, getLog(cache, filePath, page, gitOk, now))
  /\ UNCHANGED <<now, got, blameVars, repoVars, svcVars, watcherVars, viewVars, treeVars>>

NextPages == \E filePath \in PagedFiles, page \in 0..MaxPage : GetLogPage(filePath, page)

SpecPages == InitPages /\ [][NextPages]_vars

\* the newest-first history of a file of the workspace
HistoryOf(filePath) == GitHistory(Slice(filePath, Len(WorkspaceRoot) + 1))

\* the hashes of a list of commits
HashesOf(commits) == [i \in 1..Len(commits) |-> commits[i].hash]

\* the number of commits of a history of n commits on page p
OnPage(n, p) == IF n <= 50 * p THEN 0 ELSE IF n - 50 * p > 50 THEN 50 ELSE n - 50 * p

\* the commits a page of a file is cached with
CachedPage(filePath, p) == HashesOf(CacheGetValue(cache, KeyLog(filePath, p)))

RECURSIVE PagesUpTo(_, _)
PagesUpTo(filePath, p) ==
  IF p < 0 THEN << >> ELSE PagesUpTo(filePath, p - 1) \o CachedPage(filePath, p)

\* C30: an answered getLog(file, p) returns the commits at positions
\* 50p .. 50p+49 (counted from 0) of the newest-first history H of the file,
\* in that order and no others; the pages fetched for a file are pairwise
\* disjoint, and pages 0..k together are the first commits of H
C30_Pagination ==
  /\ lastCall.op = "getLog" /\ lastCall.ok =>
       LET H == HistoryOf(lastCall.filePath)
           hs == HashesOf(lastCall.commits)
       IN /\ Len(hs) = OnPage(Len(H), lastCall.page)
          /\ \A i \in 1..Len(hs) : hs[i] = H[50 * lastCall.page + i]
  /\ \A filePath \in PagedFiles :
       /\ \A p, q \in 0..MaxPage :
            (/\ p < q
             /\ KeyLog(filePath, p) \in DOMAIN cache
             /\ KeyLog(filePath, q) \in DOMAIN cache)
            => \A i \in 1..Len(CachedPage(filePath, p)) :
                 \A j \in 1..Len(CachedPage(filePath, q)) :
                   CachedPage(filePath, p)[i] # CachedPage(filePath, q)[j]
       /\ \A k \in 0..MaxPage :
            (\A p \in 0..k : KeyLog(filePath, p) \in DOMAIN cache)
            => LET all == PagesUpTo(filePath, k)
               IN /\ Len(all) <= Len(HistoryOf(filePath))
                  /\ all = SubSeq(HistoryOf(filePath), 1, Len(all))

\* page 2 of l was answered with the last 20 of its commits while the full
\* pages 0 and 1 are held in the cache
C30_Witness ==
  /\ lastCall.op = "getLog"
  /\ lastCall.ok
  /\ lastCall.filePath = FL
  /\ lastCall.page = 2
  /\ Len(lastCall.commits) > 0
  /\ Len(lastCall.commits) < 50
  /\ KeyLog(FL, 0) \in DOMAIN cache
  /\ KeyLog(FL, 1) \in DOMAIN cache
  /\ Len(CachedPage(FL, 1)) = 50


(***************************************************************************)
(* The view with its git queries in flight                                 *)
(*                                                                         *)
(* getChildren and loadMore are async: between the call of a GitService    *)
(* method that runs git and its answer, other handlers of the provider     *)
(* run.  A query answered from the service cache, from loadedCommits or    *)
(* from commitFiles involves no I/O and completes before any other handler.*)
(* `pending` holds the requests that wait for git.                         *)
(***************************************************************************)
MaxPending == 1

\* the files of the editors: l has more than two pages of history, d/a has
\* the commits H2 and H1
AsyncFiles == {FL, FA}

\* a getChildren or loadMore call waiting for git: tracked and focus are
\* currentFilePath and focusedCommitHash when it was called, page the page
\* getCommitsForFile read or loadMore was given
ViewRequest(id, op, commitHash, filePath, page) ==
  [id |-> id, op |-> op, commitHash |-> commitHash, filePath |-> filePath, page |-> page,
   tracked |-> currentFilePath, focus |-> focusedCommitHash]

FreeId == CHOOSE id \in 1..(Cardinality(pending) + 1) : \A req \in pending : req.id # id

\* the request waits for git
Await(op, commitHash, filePath, page) ==
  /\ Cardinality(pending) < MaxPending
  /\ pending' = pending \cup {ViewRequest(FreeId, op, commitHash, filePath, page)}
  /\ lastCall' = [op |-> op, awaiting |-> TRUE]
  /\ UNCHANGED <<cache, viewVars>>

\* getFilesForCommit(commitHash) has to run git: no tree to serve and no
\* cached answer of getChangedFiles
FilesNeedGit(commitHash) ==
  /\ ~(commitHash \in DOMAIN commitFiles /\ manualFoldState = "auto")
  /\ KeyFiles(commitHash) \notin DOMAIN cache
  /\ getRepoForFile(currentFilePath) # NullRepo

\* gitService.getLog(filePath, page) has to run git
LogNeedsGit(filePath, page) ==
  /\ getRepoForFile(filePath) # NullRepo
  /\ KeyLog(filePath, page) \notin DOMAIN cache

\* getChildren() is called by the tree view
AsyncGetChildren ==
  /\ IF ~Truthy(currentFilePath)
       THEN /\ rootListing' = Rendered(<<EmptyStateItem("Open a file to see git history")>>)
            /\ lastCall' = [op |-> "getChildren", awaiting |-> FALSE]
            /\ UNCHANGED <<cache, commitFiles, loadedCommits, currentPage, pending>>
     ELSE IF Truthy(focusedCommitHash)
       THEN IF FilesNeedGit(focusedCommitHash)
              THEN Await("getFilesForCommit", focusedCommitHash, currentFilePath, 0)
              ELSE /\ RenderFocused(getFilesForCommit(focusedCommitHash, TRUE))
                   /\ lastCall' = [op |-> "getChildren", awaiting |-> FALSE]
                   /\ UNCHANGED pending
     ELSE IF currentFilePath \notin DOMAIN loadedCommits /\ LogNeedsGit(currentFilePath, 0)
       THEN Await("getCommitsForFile", Undefined, currentFilePath,
                  MapGet(currentPage, currentFilePath, 0))
     ELSE /\ RenderLog(getCommitsForFile(currentFilePath, TRUE))
          /\ lastCall' = [op |-> "getChildren", awaiting |-> FALSE]
          /\ UNCHANGED pending
  /\ UNCHANGED <<currentFilePath, focusedCommitHash, allFoldersExpanded, manualFoldState>>
  /\ UNCHANGED <<now, got, blameVars, repoVars, done, fetched, watcherVars, treeVars>>

\* the tail of loadMore(filePath, page), r being the answer of getLog
LoadMoreStore(filePath, page, r) ==
  /\ loadedCommits' = MapSet(loadedCommits, filePath,
                             MapGet(loadedCommits, filePath, << >>) \o r.commits)
  /\ currentPage' = MapSet(currentPage, filePath, page)
  /\ cache' = r.cache
  /\ rootListing' = NotRendered
  /\ UNCHANGED commitFiles

\* the Load More item of the listing of the tracked file is chosen: the
\* gitHistory.loadMore command calls loadMore(item.filePath, item.page)
AsyncLoadMore ==
  /\ Truthy(currentFilePath)
  /\ ~Truthy(focusedCommitHash)
  /\ currentFilePath \in DOMAIN loadedCommits
  /\ LET page == MapGet(currentPage, currentFilePath, 0) + 1
     IN /\ Len(loadedCommits[currentFilePath]) = PageSize * page
        /\ IF LogNeedsGit(currentFilePath, page)
             THEN Await("loadMore", Undefined, currentFilePath, page)
             ELSE /\ LoadMoreStore(currentFilePath, page,
                                   getLog(cache, currentFilePath, page, TRUE, now))
                  /\ lastCall' = [op |-> "loadMore", awaiting |-> FALSE]
                  /\ UNCHANGED pending
  /\ UNCHANGED <<currentFilePath, focusedCommitHash, allFoldersExpanded, manualFoldState>>
  /\ UNCHANGED <<now, got, blameVars, repoVars, done, fetched, watcherVars, treeVars>>

\* the listing getCommitsForFile returns after its await, with the page it
\* read before
FirstPageLoaded(req, r) ==
  [LoadFirstPage(req.filePath, r) EXCEPT
     !.items = CommitListing(req.filePath, r.commits, req.page)]

\* git answers the query of a waiting request and the rest of its handler runs
GitAnswers(req) ==
  /\ req \in pending
  /\ pending' = pending \ {req}
  /\ lastCall' = [op |-> "answer", request |-> req]
  /\ \E gitOk \in GitOutcomes :
       IF req.op = "getFilesForCommit"
         THEN RenderFocused(RebuildTree(req.commitHash,
                getChangedFiles(cache, req.commitHash, req.filePath, gitOk, now)))
       ELSE IF req.op = "getCommitsForFile"
         THEN RenderLog(FirstPageLoaded(req, getLog(cache, req.filePath, 0, gitOk, now)))
       ELSE LoadMoreStore(req.filePath, req.page,
                          getLog(cache, req.filePath, req.page, gitOk, now))
  /\ UNCHANGED <<currentFilePath, focusedCommitHash, allFoldersExpanded, manualFoldState>>
  /\ UNCHANGED <<now, got, blameVars, repoVars, done, fetched, watcherVars, treeVars>>

\* a handler of the view that awaits nothing
ViewEvent(A) == A /\ UNCHANGED pending

\* the commits of the listing of the tracked file whose files the model knows:
\* gitHistory.viewCommit focuses the commit of a CommitItem
ListedCommits ==
  {h \in Commits :
     /\ currentFilePath \in DOMAIN loadedCommits
     /\ \E i \in 1..Len(loadedCommits[currentFilePath]) :
          loadedCommits[currentFilePath][i].hash = h}

NextAsync ==
  \/ \E f \in AsyncFiles : ViewEvent(HandleEditorChange([scheme |-> "file", fileName |-> f]))
  \/ \E commitHash \in ListedCommits : ViewEvent(SetFocusedCommit(commitHash))
  \/ ViewEvent(ClearFocusedCommit)
  \/ AsyncGetChildren
  \/ AsyncLoadMore
  \/ \E req \in pending : GitAnswers(req)

SpecAsync == InitView /\ [][NextAsync]_vars

\* the tracked file or the focus is not the one the request was made for
Abandoned(req) == req.tracked # currentFilePath \/ req.focus # focusedCommitHash

\* C21: when the answer to the git query of getFilesForCommit or loadMore
\* arrives after the tracked file or the focus has changed, nothing is stored:
\* commitFiles, loadedCommits and currentPage stay as they are
C21_LateResultsDiscarded ==
  [][(/\ lastCall'.op = "answer"
      /\ lastCall'.request.op \in {"getFilesForCommit", "loadMore"}
      /\ Abandoned(lastCall'.request))
     => /\ commitFiles' = commitFiles
        /\ loadedCommits' = loadedCommits
        /\ currentPage' = currentPage]_vars


(***************************************************************************)
(* The view with the gitHistory.viewDiff command                           *)
(***************************************************************************)
\* the gitHistory.viewDiff command: getParentCommit (null when git fails),
\* then the message or vscode.diff on two git-history documents.  The diff
\* editor becoming active is the handleEditorChange of a git-history editor.
ViewDiff(commitHash, filePath) ==
  /\ \E gitOk \in BOOLEAN :
       lastCall' = [op |-> "viewDiff", commitHash |-> commitHash, filePath |-> filePath,
                    shown |-> viewDiff(IF gitOk THEN GitRevParseParent(commitHash)
                                       ELSE Undefined)]
  /\ UNCHANGED <<cacheVars, blameVars, repoVars, svcVars, watcherVars, viewVars, treeVars>>

NextDiff ==
  \/ NextView
  \/ \E commitHash \in Commits : ViewDiff(commitHash, FA)

SpecDiff == InitView /\ [][NextDiff]_vars

\* the step is an editor change to a git-history or diff document, or viewDiff
DiffStep ==
  \/ /\ lastCall'.op = "handleEditorChange"
     /\ lastCall'.editor.scheme \in {"git-history", "diff"}
  \/ lastCall'.op = "viewDiff"

\* C31: an active-editor change to a document of the git-history or diff
\* scheme, and the viewDiff command, leave the tracked file, the focused
\* commit, the fold policy, the loaded commits and the cached trees unchanged
C31_DiffEditorsDoNotMoveView ==
  [][DiffStep => UNCHANGED <<currentFilePath, focusedCommitHash, manualFoldState,
                             allFoldersExpanded, loadedCommits, currentPage,
                             commitFiles>>]_vars

\* the diff of /d/a became active while /w/d/a is tracked, H1 is focused under
\* the unfolded policy and its tree is cached
C31_Witness ==
  /\ lastCall.op = "handleEditorChange"
  /\ lastCall.editor.scheme = "git-history"
  /\ currentFilePath = FA
  /\ focusedCommitHash = H1
  /\ manualFoldState = "unfolded"
  /\ H1 \in DOMAIN commitFiles
  /\ FA \in DOMAIN loadedCommits


(***************************************************************************)
(* Fold changes, checked on SpecView                                       *)
(***************************************************************************)
\* C32: foldAll and unfoldAll remove from commitFiles at most the tree of the
\* focused commit: no tree is added, the trees of the other commits stay as
\* they are, nothing is removed when no commit is focused, and the loaded
\* commits, the pages and the service cache are unchanged
C32_FoldInvalidatesNarrowly ==
  [][lastCall'.op \in {"foldAll", "unfoldAll"} =>
       /\ DOMAIN commitFiles \ {focusedCommitHash} \subseteq DOMAIN commitFiles'
       /\ DOMAIN commitFiles' \subseteq DOMAIN commitFiles
       /\ \A h \in DOMAIN commitFiles' : commitFiles'[h] = commitFiles[h]
       /\ ~Truthy(focusedCommitHash) => commitFiles' = commitFiles
       /\ UNCHANGED <<loadedCommits, currentPage, cache>>]_vars

\* unfoldAll ran while H1 was focused: the tree of H2 is still cached, the
\* tree of H1 is not, and the service cache holds the files of both commits
\* and the log of the tracked file
C32_Witness ==
  /\ lastCall.op = "unfoldAll"
  /\ focusedCommitHash = H1
  /\ DOMAIN commitFiles = {H2}
  /\ KeyFiles(H1) \in DOMAIN cache
  /\ KeyFiles(H2) \in DOMAIN cache
  /\ currentFilePath \in DOMAIN loadedCommits


(***************************************************************************)
(* The Load More item, checked on SpecAsync                                *)
(***************************************************************************)
\* the listing of getCommitsForFile offers more commits of file f in this state
Offered(f) ==
  /\ f \in DOMAIN loadedCommits
  /\ Len(loadedCommits[f]) = 50 * (MapGet(currentPage, f, 0) + 1)

\* getChildren has returned the commit listing of a file: for its tracked
\* file at once, or for the file of its request when git answered
LogListed ==
  /\ rootListing.kind = "rendered"
  /\ \/ (lastCall.op = "getChildren" /\ Truthy(currentFilePath) /\ ~Truthy(focusedCommitHash))
     \/ (lastCall.op = "answer" /\ lastCall.request.op = "getCommitsForFile")
ListedFile ==
  IF lastCall.op = "answer" THEN lastCall.request.filePath ELSE currentFilePath

\* the listing ends with the Load More item of the next page exactly when
\* more commits are offered, and holds no other Load More item
LoadMoreShown(items, f) ==
  /\ Offered(f) <=> \E i \in 1..Len(items) : items[i].type = "loadMore"
  /\ Offered(f) => items[Len(items)] = LoadMoreItem(f, currentPage[f] + 1)
  /\ \A i \in 1..(Len(items) - 1) : items[i].type # "loadMore"

\* loadMore has stored the page it asked for
LoadMoreStored ==
  \/ (lastCall'.op = "loadMore" /\ ~lastCall'.awaiting)
  \/ (lastCall'.op = "answer" /\ lastCall'.request.op = "loadMore")

\* the file loadMore was called for, and the number of commits the step has
\* added to it
LoadMoreFile ==
  IF lastCall'.op = "answer" THEN lastCall'.request.filePath ELSE currentFilePath
PageAdded(f) == Len(loadedCommits'[f]) - Len(MapGet(loadedCommits, f, << >>))

\* C33: a commit listing ends with the Load More item for page current+1
\* exactly when 50 * (current page + 1) commits are loaded for the file; after
\* loadMore that is the case exactly when the page it loaded was full; and a
\* file for which it is not offered stays so while its history is not reloaded
C33_LoadMoreOffered ==
  [][/\ (LogListed => LoadMoreShown(rootListing.items, ListedFile))'
     /\ \A f \in AsyncFiles :
          /\ (LoadMoreStored /\ f = LoadMoreFile) => (Offered(f)' <=> PageAdded(f) = 50)
          /\ (f \in DOMAIN loadedCommits /\ f \in DOMAIN loadedCommits' /\ ~Offered(f))
               => ~Offered(f)']_vars


\* the first n commits of the history of a file, or all of them
HistoryPrefix(filePath, n) ==
  SubSeq(HistoryOf(filePath), 1,
         IF n > Len(HistoryOf(filePath)) THEN Len(HistoryOf(filePath)) ELSE n)

\* C34: once no request is in flight, the commits loaded for a file are pages
\* 0..currentPage[file] of its history: its first 50 * (current page + 1)
\* commits, in order, none twice
C34_LoadedCommitsCleanPrefix ==
  pending = {} =>
    \A f \in DOMAIN loadedCommits :
      HashesOf(loadedCommits[f]) = HistoryPrefix(f, 50 * (MapGet(currentPage, f, 0) + 1))


(***************************************************************************)
(* Invalidation and the calls in flight, checked on SpecService            *)
(***************************************************************************)
\* the call returns in this step after invalidateCache ran during its await
ReturnsAfterInvalidation(call) ==
  /\ call \in pending
  /\ lastCall'.op = "return"
  /\ lastCall'.id = call.id
  /\ ~call.clean

\* C35: a read operation whose await was crossed by invalidateCache leaves the
\* cache as it is when it completes: what it queried before the invalidation
\* is not stored
C35_InvalidationNotUndone ==
  [][\A call \in pending : ReturnsAfterInvalidation(call) => cache' = cache]_vars


\* call j was made after call i had returned, with the same arguments
CalledAgain(i, j) ==
  /\ i < j
  /\ done[j].query = done[i].query
  /\ done[j].started >= i

\* C36: a call whose git query fails, and a call that finds no owning
\* repository, leave the cache as it is; a later call of getLog,
\* getChangedFiles, getFileContent or getBlame with the same arguments runs
\* git again, unless another call has stored an answer of git in between
C36_FailuresLeaveCache ==
  [][/\ (lastCall'.op = "return" /\ ~lastCall'.ok) => cache' = cache
     /\ (lastCall'.op = "call" /\ Len(done') > Len(done) /\ ~done'[Len(done')].ok)
          => cache' = cache
     /\ \A i, j \in DOMAIN done' :
          (/\ CalledAgain(i, j)'
           /\ done'[i].query.op \in CachedOps
           /\ done'[i].git /\ ~done'[i].ok)
          => \/ done'[j].git
             \/ \E k \in DOMAIN done' :
                  /\ k # i /\ k < j
                  /\ done'[k].query = done'[i].query
                  /\ done'[k].git /\ done'[k].ok]_vars

\* git failed for getLog('/w/b', 0); the same call was made again, ran git
\* and stored the log
C36_Witness ==
  /\ Len(done) = 2
  /\ done[1].query.op = "getLog"
  /\ done[1].git /\ ~done[1].ok
  /\ done[2].query = done[1].query
  /\ done[2].started = 1
  /\ done[2].git /\ done[2].ok
  /\ QueryKey(done[2].query) \in DOMAIN cache


(***************************************************************************)
(* The tree builder as a consumer of the service cache                     *)
(***************************************************************************)
\* the view on the file /w/d/a and the commit H3, whose files git lists as
\* B, a
NextConsumer ==
  \/ HandleEditorChange([scheme |-> "file", fileName |-> FA])
  \/ SetFocusedCommit(H3)
  \/ ClearFocusedCommit
  \/ FoldAll
  \/ UnfoldAll
  \/ Refresh
  \/ GetChildren

SpecConsumer == InitView /\ [][NextConsumer]_vars

\* C37: the list cached under the changed-files key of a commit is the list
\* git reported, in git's order, whatever trees have been built from it
C37_CachedFilesUnaltered ==
  KeyFiles(H3) \in DOMAIN cache =>
    CacheGetValue(cache, KeyFiles(H3)) = ParseNameStatus(GitShowNameStatus(H3))


\* getBlame(filePath) on cache c at time t
getBlame(c, filePath, gitOk, t) ==
  IF getRepoForFile(filePath) = NullRepo THEN [blame |-> << >>, cache |-> c]
  ELSE IF KeyBlame(filePath) \in DOMAIN c
    THEN [blame |-> CacheGetValue(c, KeyBlame(filePath)), cache |-> c]
  ELSE IF ~gitOk THEN [blame |-> << >>, cache |-> c]
  ELSE CacheAnswer(c, KeyBlame(filePath), "blame",
                   parseBlameOutput(
                     GitBlamePorcelain(
                       getRelativePathForRepo(filePath, getRepoForFile(filePath).root)), t),
                   filePath, Undefined, t)

(***************************************************************************)
(* GitBlameProvider (blameProvider.ts): toggle, the showBlame setting and  *)
(* the showBlame calls in flight.  `pending` holds the calls of showBlame  *)
(* and toggle that are awaiting.                                           *)
(***************************************************************************)
MaxBlameCalls == 2

\* the visible editors, by the file of their document
BlameEditors == {FA, FB}

\* a call of showBlame(editor) awaiting getBlame and getGitHubRemoteUrl, or a
\* call of toggle awaiting config.update (value is this.enabled as passed)
BlameCall(op, editor, value) ==
  [id |-> CHOOSE id \in 1..(Cardinality(pending) + 1) : \A c \in pending : c.id # id,
   op |-> op, editor |-> editor, value |-> value]

\* the calls in flight after showBlame(editor) is called: the schemes and
\* paths showBlame skips are not among the editors of the model
ShowBlameCalled(calls, editor) == calls \cup {BlameCall("showBlame", editor, enabled)}

\* clearBlame(): every visible editor loses its decorations, blameData is emptied
ClearBlame ==
  /\ decorations' = << >>
  /\ blameData' = << >>

\* onDidChangeActiveTextEditor of the blame provider
BlameEditorChange(editor) ==
  /\ Cardinality(pending) < MaxBlameCalls
  /\ currentEditor' = editor
  /\ pending' = IF enabled THEN ShowBlameCalled(pending, editor) ELSE pending
  /\ lastCall' = [op |-> "blameEditorChange", editor |-> editor]
  /\ UNCHANGED <<enabled, decorations, blameData>>

\* onDidSaveTextDocument
BlameDocumentSaved(editor) ==
  /\ Cardinality(pending) < MaxBlameCalls
  /\ enabled
  /\ pending' = ShowBlameCalled(pending, editor)
  /\ lastCall' = [op |-> "saveDocument", editor |-> editor]
  /\ UNCHANGED <<enabled, currentEditor, decorations, blameData>>

\* updateEnabledState() with the setting showBlame read as value
UpdateEnabledState(calls, value) ==
  /\ enabled' = value
  /\ IF ~value
       THEN ClearBlame /\ pending' = calls
     ELSE IF currentEditor # Undefined
       THEN /\ pending' = ShowBlameCalled(calls, currentEditor)
            /\ UNCHANGED <<decorations, blameData>>
     ELSE /\ pending' = calls
          /\ UNCHANGED <<decorations, blameData>>

\* the user changes the showBlame setting: onDidChangeConfiguration
SettingChanged(value) ==
  /\ Cardinality(pending) < MaxBlameCalls
  /\ UpdateEnabledState(pending, value)
  /\ lastCall' = [op |-> "settingChanged", value |-> value]
  /\ UNCHANGED currentEditor

\* toggle() up to `await config.update('showBlame', this.enabled, true)`
ToggleBlame ==
  /\ Cardinality(pending) < MaxBlameCalls
  /\ enabled' = ~enabled
  /\ pending' = pending \cup {BlameCall("toggle", Undefined, ~enabled)}
  /\ lastCall' = [op |-> "toggle"]
  /\ UNCHANGED <<currentEditor, decorations, blameData>>

\* config.update writes the setting: onDidChangeConfiguration runs
\* updateEnabledState, and toggle goes on after its await
ConfigUpdated(call) ==
  /\ call \in pending
  /\ call.op = "toggle"
  /\ Cardinality(pending) < MaxBlameCalls
  /\ UpdateEnabledState((pending \ {call}) \cup {[call EXCEPT !.op = "toggled"]}, call.value)
  /\ lastCall' = [op |-> "configUpdated", value |-> call.value]
  /\ UNCHANGED currentEditor

\* the rest of toggle(): showBlame(currentEditor) or clearBlame()
ToggleContinues(call) ==
  /\ call \in pending
  /\ call.op = "toggled"
  /\ lastCall' = [op |-> "toggled"]
  /\ IF enabled /\ currentEditor # Undefined
       THEN /\ pending' = ShowBlameCalled(pending \ {call}, currentEditor)
            /\ UNCHANGED <<decorations, blameData>>
       ELSE /\ ClearBlame
            /\ pending' = pending \ {call}
  /\ UNCHANGED <<enabled, currentEditor>>

\* the part of the state the blame provider does not touch
DecoFrame ==
  UNCHANGED <<now, got, blameEntries, blameInput, blameInfo, repoVars, done, fetched,
              watcherVars, viewVars, treeVars>>

\* the line numbers decorated: the blame lines inside the document (the
\* documents of the model have one line)
DecoratedLines(blame) ==
  {blame[i].lineNumber : i \in {j \in 1..Len(blame) : blame[j].lineNumber = 1}}

\* getBlame and getGitHubRemoteUrl have answered a showBlame call: with blame
\* lines the editor is decorated and blameData set, with none showBlame returns
ShowBlameAnswered(call) ==
  /\ call \in pending
  /\ call.op = "showBlame"
  /\ pending' = pending \ {call}
  /\ \E gitOk \in BOOLEAN :
       LET r == getBlame(cache, call.editor, gitOk, now)
       IN /\ cache' = r.cache
          /\ lastCall' = [op |-> "showBlameAnswered", editor |-> call.editor, ok |-> gitOk]
          /\ IF Len(r.blame) = 0
               THEN UNCHANGED <<decorations, blameData>>
               ELSE /\ decorations' = MapSet(decorations, call.editor, DecoratedLines(r.blame))
                    /\ blameData' = MapSet(blameData, call.editor, r.blame)
  /\ UNCHANGED <<enabled, currentEditor>>
  /\ DecoFrame

\* a handler of the blame provider that calls no GitService method itself
BlameHandler(A) == A /\ UNCHANGED cache /\ DecoFrame

NextDeco ==
  \/ \E editor \in BlameEditors : BlameHandler(BlameEditorChange(editor))
  \/ \E editor \in BlameEditors : BlameHandler(BlameDocumentSaved(editor))
  \/ \E value \in BOOLEAN : BlameHandler(SettingChanged(value))
  \/ BlameHandler(ToggleBlame)
  \/ \E call \in pending : BlameHandler(ConfigUpdated(call))
  \/ \E call \in pending : BlameHandler(ToggleContinues(call))
  \/ \E call \in pending : ShowBlameAnswered(call)

SpecDeco == InitView /\ [][NextDeco]_vars

\* C38: while blame is disabled and no call is in flight, no editor carries
\* blame decorations and blameData is empty
C38_DisabledBlameShowsNothing ==
  (~enabled /\ pending = {}) =>
    /\ \A editor \in DOMAIN decorations : decorations[editor] = {}
    /\ blameData = << >>



(***************************************************************************)
(* Specification SpecInit: the read operations that do not await           *)
(* initializationPromise, called while initializeRepos() is running in a   *)
(* workspace that is a repository with one submodule                       *)
(***************************************************************************)
\* the submodules `git submodule status` lists in this workspace
DetectedSubmodules == <<<<"s">>>>

\* the read operations without `await this.initializationPromise`
UnawaitedOps == {"getChangedFiles", "getParentCommit", "getFileContent", "getGitHubRemoteUrl"}

InitQueries == {q \in Queries : q.op \in UnawaitedOps}

\* `this.isGitRepo = await this.mainGit.checkIsRepo()` of initializeRepos
RepoChecked ==
  /\ ~isGitRepo
  /\ isGitRepo' = TRUE
  /\ lastCall' = [op |-> "checkIsRepo"]
  /\ UNCHANGED <<submoduleRepos, cacheVars, blameVars, svcVars, watcherVars, viewVars, treeVars>>

\* one round of the loop of detectSubmodules: `await
\* submoduleGit.checkIsRepo()` answers and the submodule is stored
SubmoduleDetected ==
  /\ isGitRepo
  /\ Len(submoduleRepos) < Len(DetectedSubmodules)
  /\ submoduleRepos' = Append(submoduleRepos, DetectedSubmodules[Len(submoduleRepos) + 1])
  /\ lastCall' = [op |-> "detectSubmodules"]
  /\ UNCHANGED <<isGitRepo, cacheVars, blameVars, svcVars, watcherVars, viewVars, treeVars>>

\* initializationPromise has resolved
Initialized == isGitRepo /\ submoduleRepos = DetectedSubmodules

NextInit ==
  \/ \E q \in InitQueries : StartCall(q)
  \/ \E call \in pending : CompleteCall(call)
  \/ RepoChecked
  \/ SubmoduleDetected
  \/ Tick

SpecInit == InitNoRepo /\ [][NextInit]_vars

\* the repository getRepoForFile answers once initializationPromise has
\* resolved
RepoWhenInitialized(filePath) ==
  LET sub == FirstSubmoduleRepo(PathNormalize(filePath), DetectedSubmodules, 1)
  IN IF sub # NullRepo THEN sub ELSE RepoInfo(WorkspaceRoot)

\* the call returned from `if (!repo) return ...`: without a git query and
\* not from the cache
ReturnedNoRepo(r) == ~r.git /\ ~r.ok

\* C39: a call of getChangedFiles, getParentCommit, getFileContent or
\* getGitHubRemoteUrl made while the repositories are being initialized
\* returns what the same call returns afterwards: it returns the
\* no-repository result only for a file that has no repository once
\* initialization has completed
C39_QueriesIgnoreInitTiming ==
  \A i \in DOMAIN done :
    (done[i].query.op \in UnawaitedOps /\ ReturnedNoRepo(done[i]))
      => RepoWhenInitialized(done[i].query.filePath) = NullRepo


(***************************************************************************)
(* Specification SpecDispose: the debounced change handler of GitWatcher   *)
(* and dispose()                                                           *)
(***************************************************************************)
\* the timer of the closure of setupWatcher once dispose() has run:
\* `this.disposables.forEach(d => d.dispose())` disposes the
\* FileSystemWatcher, the one disposable; `timeout` is a local of
\* setupWatcher and no clearTimeout is called on it
TimerAfterDispose == timeout

\* dispose()
Dispose ==
  /\ ~disposed
  /\ disposed' = TRUE
  /\ timeout' = TimerAfterDispose
  /\ lastCall' = [op |-> "dispose"]
  /\ UNCHANGED <<cache, now, got, callbackCount, eventTimes, blameVars, repoVars, svcVars,
                 viewVars, treeVars>>

NextDispose ==
  \/ ChangeEvent
  \/ FireTimer
  \/ Elapse
  \/ Dispose

SpecDispose == InitWatcher /\ [][NextDispose]_vars

\* C40: once dispose() has been called the callback is not invoked again,
\* even when a change event arrived less than the quiet period before
C40_NoCallbackAfterDispose ==
  [][disposed => callbackCount' = callbackCount]_vars
=========================================================================
